---- MODULE Spec2Model ----
(***************************************************************************)
(* A model of the Alcor2 kernel: the process table (fork, exec, exit,      *)
(* wait), the descriptor and pipe tables, the round-robin task scheduler   *)
(* and the ATA channel's IRQ wait.                                         *)
(***************************************************************************)
EXTENDS Integers, Sequences, FiniteSets, TLC

(***************************************************************************)
(* Bounds of the model.                                                    *)
(***************************************************************************)
\* Number of process-table slots explored (the source's PROC_MAX is 16).
PROC_MAX == 3
\* Number of PIDs handed out before fork/exec stop being explored.
MaxPid == 4
\* Size of the descriptor table explored (the source's VFS_MAX_FD is 32).
VFS_MAX_FD == 5
\* Number of pipes explored (the source's MAX_PIPES is 16).
MAX_PIPES == 2
\* Number of PIDs handed out where descriptors are explored.
MaxFdPids == 2
\* Number of kernel tasks created besides the idle task (TASK_MAX_COUNT is 64).
MaxTasks == 2
\* Ticks in a time slice (the source's DEFAULT_TIME_SLICE is 10).
DEFAULT_TIME_SLICE == 2
\* Ticks before an IRQ wait gives up (the source's TIMEOUT_TICKS is 500).
TIMEOUT_TICKS == 2
\* Number of slices counted when the round-robin order is observed.
MaxSlices == 16
\* Bytes a pipe buffer holds (the source's PIPE_BUF_SIZE is 4096).
PIPE_BUF_SIZE == 2
\* Bytes written into one pipe over its life.
MaxPipeBytes == 4
MaxSectors == 2
\* Page frames of physical memory, from frame 0 to the top of usable memory.
MaxFrames == 16
\* Frames a caller of the allocator holds at a time where the allocator is explored.
MaxHeld == 2
\* Entries of a page table (the source's tables have 512; the lower half of a
\* PML4 is the user half).
TABLE_ENTRIES == 2
\* User address spaces alive at a time.
MaxSpaces == 2
\* User address spaces created over a run.
MaxSpacesMade == 2
\* Pages the page allocator can give the heap: the initial sixteen and two
\* expansions of four.
MaxHeapPages == 24
\* Heap allocations alive at a time.
MaxLive == 3
\* Width of an address: a u64 of the kernel is AddrBits bits wide here.
AddrBits == 10

(***************************************************************************)
(* Program constants.                                                      *)
(***************************************************************************)
ENOENT == 2
ECHILD == 10
ENOMEM == 12
EFAULT == 14
EINVAL == 22
WNOHANG == 1
SYS_FORK == 57
SYS_EXECVE == 59
SYS_WAIT4 == 61
SYS_OPEN == 2
SYS_CLOSE == 3
SYS_PIPE == 22
EBADF == 9
EPIPE == 32
MAX_RETRIES == 3
PAGE_SIZE == 4096

\* ext2.h and errno.h.
EIO == 5
EEXIST == 17
ENOTDIR == 20
EISDIR == 21
ENOSPC == 28
ENOTEMPTY == 39
EXT2_ROOT_INODE == 2
EXT2_NDIR_BLOCKS == 12
EXT2_IND_BLOCK == 12
EXT2_DIND_BLOCK == 13
EXT2_TIND_BLOCK == 14
EXT2_N_BLOCKS == 15
EXT2_S_IFREG == 32768
EXT2_S_IFDIR == 16384
EXT2_FT_REG_FILE == 1
EXT2_FT_DIR == 2
\* Bounds of the ext2 volume: pointers in a block (a block has four bytes
\* for each), blocks and inodes in a group, groups, 512-byte units in a
\* block, and the handles of g_files.
Ext2PtrsPerBlock == 6
Ext2BlocksPerGroup == 48
Ext2InodesPerGroup == 4
Ext2Groups == 2
Ext2SectorsPerBlock == 2
EXT2_MAX_FILES == 2
\* Open flags of vfs.h, the smallest capacity of a ramfs file, and the
\* number of byte values in the sequence of scenario S3 (256 in the scenario).
O_CREAT == 64
O_TRUNC == 512
O_APPEND == 1024
RamMinCapacity == 4096
S3Wrap == 2
BITS_PER_ENTRY == 64
\* Numbers of the directory system calls (syscall.h) and the errors they return.
SYS_GETDENTS == 78
SYS_GETCWD == 79
SYS_CHDIR == 80
SYS_MKDIR == 83
SYS_RMDIR == 84
SYS_UNLINK == 87
SYS_GETDENTS64 == 217
SYS_MAX == 512
ENOSYS == 38
ERANGE == 34
\* Deepest directory the bounded runs create.
MaxDepth == 2
SYS_READ == 0
SYS_WRITE == 1
\* First and one-past-last descriptor number of the pipe range.
PIPE_FD_FIRST == 100
PIPE_FD_END == 200

NULL == -1
Slots == 0..(PROC_MAX - 1)
Pids == 1..MaxPid
\* Address spaces (root frames) and kernel stacks the allocators can hand out.
AddrSpaces == 1..(PROC_MAX + 1)
KStacks == 1..(PROC_MAX + 1)
\* Exit codes passed to exit(); 257 differs from its low byte.
ExitCodes == {0, 257}
\* User register contexts a process can be at when it enters the kernel.
UserCtxs == { [rip |-> 16, rsp |-> 64, rflags |-> 514],
              [rip |-> 32, rsp |-> 80, rflags |-> 582] }
Fds == 0..(VFS_MAX_FD - 1)
PipeIds == 0..(MAX_PIPES - 1)
TaskIds == 0..MaxTasks
ClosedPipe == [read_open |-> FALSE, write_open |-> FALSE, read_fd |-> 0, write_fd |-> 0]
NoFrame == [rax |-> 0, rip |-> 0, rsp |-> 0, rflags |-> 0]
\* The data part of a zeroed pipe_t, and no pipe call in progress.
EmptyPipeData == [buffer |-> [k \in 0..(PIPE_BUF_SIZE - 1) |-> 0],
                  read_pos |-> 0, write_pos |-> 0, count |-> 0]
NoPipeWait == [pipe |-> NULL, count |-> 0, src |-> <<>>]

\* No transfer in progress.
NoXfer == [path |-> "none", count |-> 0, s |-> 0, retry |-> 0, r |-> "OK",
           hist |-> <<>>, ret |-> "OK"]

VARIABLES
  proc_table,     \* proc_t proc_table[PROC_MAX]
  current_proc,   \* slot of the running process, or NULL
  next_pid,       \* next PID to hand out
  kpc,            \* where the CPU is: boot, user, inside proc_exit, switched, halt
  cpu,            \* user-visible registers of the CPU (rax, rip, rsp, rflags)
  wstatus,        \* the word last stored through a wait status pointer (-1: none yet)
  as_live,        \* address spaces currently allocated
  ks_live,        \* kernel stacks currently allocated
  released,       \* per PID: how often its address space, stack and slot were released
  fd_table,       \* vfs_fd_t fd_table[VFS_MAX_FD]: in_use and owner_pid
  pipes,          \* pipe_t pipes[MAX_PIPES]: the two ends and their descriptors
  pipe_creator,   \* per pipe: PID of the process whose pipe() call created it
  op,             \* the handler that made the last step, its result and arguments
  task_list,      \* the circular task list, in ring order from its head
  tstate,         \* task_t.state of every task ("NONE": not created)
  ticks_remaining, \* task_t.ticks_remaining of every task
  current_task,   \* the task the CPU runs
  need_resched,   \* the scheduler's need_resched flag
  intr,           \* the CPU's interrupt flag
  tpc,            \* where each task is, or where it resumes when switched to
  ch_state,       \* ata_channel_t.state: "IDLE" or "PENDING"
  ch_waiter,      \* ata_channel_t.waiter: a task, or NULL
  hw_busy,        \* the device is working on a command
  irq_line,       \* the device has raised its IRQ, which is not yet handled
  elapsed,        \* PIT ticks since wait_irq computed its deadline
  awaiting,       \* tasks that blocked and that nothing has unblocked since
  slices,         \* per task: slices it was given (counted where round robin is observed)
  pipe_buf,       \* pipe_t: buffer, read_pos, write_pos and count of every pipe
  pipe_wait,      \* the pipe call that is in its wait loop: pipe, count, bytes to write
  pipe_in,        \* per pipe: the bytes pipe_write has accepted since the pipe was created
  pipe_out,       \* per pipe: the bytes pipe_read has returned since the pipe was created
  xfer,           \* the ata_read / ata_write call in progress: path, sector, retry, r
  bitmap,         \* pmm.c bitmap: per page, TRUE when its bit is set (allocated or reserved)
  free_pages,     \* pmm.c free_pages
  pmm_handed,     \* pages an allocation returned and no free has been called on since
  pmm_stray,      \* a free was called on a page that no caller held
  tables,         \* per page frame: its contents read as a page table
  data,           \* per page frame: its contents read as data (0: zeroes)
  spaces,         \* PML4 frames of the user address spaces that exist
  spaces_made,    \* number of address spaces created so far
  clone_src,      \* per address space: the one it was cloned from, or NULL
  heap_blocks,    \* the heap's block list from heap_start to heap_end
  heap_size,      \* heap.c heap_size
  heap_used,      \* heap.c heap_used
  heap_next_va,   \* heap.c heap_next_va, as an offset from KERNEL_HEAP_BASE
  heap_live,      \* pointers kmalloc returned and kfree has not released, with their sizes
  panicked,       \* exception_handler ran and halted the CPU
  uaccess,        \* the memory the last system call used through a pointer argument
  ustatus,        \* per slot: the status pointer of the wait4 call it is blocked in
  e2_disk,        \* the ext2 image: superblock, group descriptors, bitmaps, inodes, blocks
  e2_vol,         \* ext2_volume_t: mounted, the cached superblock and group descriptors
  e2_files,       \* ext2_file_t g_files[EXT2_MAX_FILES]
  e2_path,        \* per handle: the path it was opened with (0: none)
  e2_ghost,       \* what the calls so far should have left, and what the last read returned
  fd_file,        \* vfs_fd_t fd_table[VFS_MAX_FD]: node and offset
  ram_f,          \* the ramfs node of /f: whether it exists, its bytes and its capacity
  s3,             \* how far write, close, open, read of /f have come, and the bytes read
  ram_tree,       \* the ramfs nodes below root_node: the directories and the files
  cwd,            \* vfs.c cwd, the text of the working directory
  cwd_seen        \* per PID: the working directory it last set or read, and its last call

procVars == <<proc_table, current_proc, next_pid, kpc, cpu, wstatus,
              as_live, ks_live, released>>
fdVars == <<fd_table, pipes, pipe_creator>>
taskVars == <<task_list, tstate, ticks_remaining, current_task, need_resched, intr, tpc>>
ataVars == <<ch_state, ch_waiter, hw_busy, irq_line, elapsed>>
schedVars == <<taskVars, ataVars, awaiting, slices>>

pipeVars == <<pipe_buf, pipe_wait, pipe_in, pipe_out>>
xferVars == <<xfer>>
pmmVars == <<bitmap, free_pages, pmm_handed, pmm_stray>>
vmmVars == <<tables, data, spaces, spaces_made, clone_src>>
memVars == <<pmmVars, vmmVars>>
heapVars == <<heap_blocks, heap_size, heap_used, heap_next_va, heap_live, panicked>>
userVars == <<uaccess, ustatus>>
ext2Vars == <<e2_disk, e2_vol, e2_files, e2_path, e2_ghost>>
cwdVars == <<ram_tree, cwd, cwd_seen>>
vfsVars == <<fd_file, ram_f, s3, cwdVars>>
fsVars == <<ext2Vars, vfsVars>>
svcVars == <<heapVars, userVars, fsVars>>
devCore == <<xferVars, memVars, heapVars, fsVars>>
devVars == <<xferVars, memVars, svcVars>>
otherVars == <<pipeVars, devVars>>

vars == <<procVars, fdVars, op, schedVars, otherVars>>

Min(S) == CHOOSE x \in S : \A y \in S : x <= y

(***************************************************************************)
(* The process table.                                                      *)
(***************************************************************************)
FreeSlot ==
  [pid |-> 0, parent_pid |-> 0, state |-> "FREE", exit_code |-> 0,
   cr3 |-> 0, kernel_stack |-> 0, waiting_for_pid |-> 0,
   user_rip |-> 0, user_rsp |-> 0, user_rflags |-> 0,
   saved_rsp |-> "none", frame |-> NoFrame, karg |-> 0, kstatus |-> FALSE]

\* proc_get: the first non-FREE slot holding pid, or NULL.
proc_get(t, pid) ==
  LET hit == { i \in Slots : t[i].pid = pid /\ t[i].state # "FREE" }
  IN IF hit = {} THEN NULL ELSE Min(hit)

\* proc_alloc: the first FREE slot, or NULL.
proc_alloc(t) ==
  LET free == { i \in Slots : t[i].state = "FREE" }
  IN IF free = {} THEN NULL ELSE Min(free)

\* An allocator that hands out the lowest root frame even when it is in use.
vmm_new_space_reuses(live, ok) ==
  IF ok THEN Min(AddrSpaces) ELSE 0

\* vmm_create_address_space / vmm_clone_address_space: a root frame not in use,
\* or 0 when the allocation fails.
vmm_new_space(live, ok) ==
  IF ok /\ AddrSpaces \ live # {} THEN Min(AddrSpaces \ live) ELSE 0

\* kmalloc(PROC_KERNEL_STACK): a stack not in use, or 0 when it fails.
kmalloc_stack(live, ok) ==
  IF ok /\ KStacks \ live # {} THEN Min(KStacks \ live) ELSE 0

\* proc_schedule's search: the first READY slot after the current one, round robin.
next_ready(t, cur) ==
  LET start == IF cur = NULL THEN 0 ELSE cur
      cand  == { i \in 1..PROC_MAX : t[(start + i) % PROC_MAX].state = "READY" }
  IN IF cand = {} THEN NULL ELSE (start + Min(cand)) % PROC_MAX

\* proc_switch: the table after switching from cur to next.
proc_switch(t, cur, next) ==
  IF next = cur THEN t
  ELSE LET t1 == IF cur # NULL /\ t[cur].state = "RUNNING"
                 THEN [t EXCEPT ![cur].state = "READY"] ELSE t
       IN [t1 EXCEPT ![next].state = "RUNNING"]

\* The count of releases, capped so that a runaway double release stays finite.
Bump(n) == IF n < 2 THEN n + 1 ELSE n

\* The user context an ELF image starts at (entry point, prepared stack, IF set).
ElfCtx == [rip |-> 16, rsp |-> 64, rflags |-> 514]

\* proc_create: a new READY process from an ELF image. fail names the step that
\* fails: "none", "as" (address space), "ks" (kernel stack), "load" (user stack
\* pages or ELF load).  Yields the table, the live resources, and the PID (0 on
\* failure).
proc_create(t, cur, npid, asl, ksl, fail) ==
  LET p == proc_alloc(t)
  IN IF p = NULL
     THEN [t |-> t, as |-> asl, ks |-> ksl, pid |-> 0]
     ELSE
       LET cr3 == vmm_new_space(asl, fail # "as")
           t1  == [t EXCEPT ![p].cr3 = cr3]
       IN IF cr3 = 0
          THEN [t |-> t, as |-> asl, ks |-> ksl, pid |-> 0]
          ELSE
            LET stk == kmalloc_stack(ksl, fail # "ks")
                t2  == [t1 EXCEPT ![p].kernel_stack = stk]
            IN IF stk = 0
               \* returns without destroying the address space just created
               THEN [t |-> t, as |-> asl \cup {cr3}, ks |-> ksl, pid |-> 0]
               ELSE IF fail = "load"
               THEN [t |-> t, as |-> asl, ks |-> ksl, pid |-> 0]
               ELSE
                 [t |-> [t2 EXCEPT ![p] =
                           [@ EXCEPT !.pid = npid,
                                     !.parent_pid = IF cur = NULL THEN 0 ELSE t[cur].pid,
                                     !.state = "READY",
                                     !.exit_code = 0,
                                     !.waiting_for_pid = 0,
                                     !.user_rip = ElfCtx.rip,
                                     !.user_rsp = ElfCtx.rsp,
                                     !.user_rflags = ElfCtx.rflags,
                                     !.saved_rsp = "proc_enter_first_time"]],
                  as |-> asl \cup {cr3}, ks |-> ksl \cup {stk}, pid |-> npid]

\* proc_fork with a fork that drops the zeroing of the child's RAX.
proc_fork_child_frame_keep_rax(frame) == frame

\* The syscall frame proc_fork leaves on the child's kernel stack: the parent's,
\* with the return-value word zeroed.
proc_fork_child_frame(frame) == [frame EXCEPT !.rax = 0]

\* proc_fork: yields the table, the live resources and the value returned to the
\* parent.  fail: "none", "as" (clone fails), "ks" (kmalloc fails).
proc_fork(t, cur, npid, asl, ksl, frame, fail) ==
  LET child == proc_alloc(t)
  IN IF child = NULL
     THEN [t |-> t, as |-> asl, ks |-> ksl, ret |-> -ENOMEM]
     ELSE
       LET cr3 == vmm_new_space(asl, fail # "as")
           t1  == [t EXCEPT ![child].cr3 = cr3]
       IN IF cr3 = 0
          THEN [t |-> t, as |-> asl, ks |-> ksl, ret |-> -ENOMEM]
          ELSE
            LET stk == kmalloc_stack(ksl, fail # "ks")
                t2  == [t1 EXCEPT ![child].kernel_stack = stk]
            IN IF stk = 0
               THEN [t |-> t, as |-> asl, ks |-> ksl, ret |-> -ENOMEM]
               ELSE
                 [t |-> [t2 EXCEPT ![child] =
                           [@ EXCEPT !.pid = npid,
                                     !.parent_pid = t[cur].pid,
                                     !.state = "READY",
                                     !.exit_code = 0,
                                     !.waiting_for_pid = 0,
                                     !.user_rip = frame.rip,
                                     !.user_rsp = frame.rsp,
                                     !.user_rflags = frame.rflags,
                                     !.frame = proc_fork_child_frame(frame),
                                     !.saved_rsp = "proc_fork_child_entry"]],
                  as |-> asl \cup {cr3}, ks |-> ksl \cup {stk}, ret |-> npid]

\* The frame the SYSCALL stub saves: the user registers, RAX holding the number.
syscall_frame(num) == [cpu EXCEPT !.rax = num]

\* proc_schedule followed by proc_switch, from inside the kernel.
Schedule(t) ==
  LET next == next_ready(t, current_proc)
  IN IF next = NULL
     THEN /\ proc_table' = t
          /\ kpc' = "halt"
          /\ UNCHANGED current_proc
     ELSE /\ proc_table' = proc_switch(t, current_proc, next)
          /\ current_proc' = next
          /\ kpc' = "switched"

(***************************************************************************)
(* Descriptors and pipes.                                                  *)
(***************************************************************************)
\* vfs_open's descriptor search (ramfs and routed paths): the first descriptor
\* from 3 up that is not in use, or NULL.
vfs_free_fd(ft) ==
  LET free == { f \in Fds : f >= 3 /\ ~ft[f].in_use }
  IN IF free = {} THEN NULL ELSE Min(free)

\* vfs_open_fat32's descriptor search on a FAT32 mount: the first descriptor
\* from 0 up that is not in use, or NULL.
fat32_free_fd(ft) ==
  LET free == { f \in Fds : ~ft[f].in_use }
  IN IF free = {} THEN NULL ELSE Min(free)

\* vfs_close: the table with fd marked not in use (unchanged for a bad fd).
vfs_close(ft, fd) ==
  IF fd < 0 \/ fd >= VFS_MAX_FD \/ ~ft[fd].in_use THEN ft
  ELSE [ft EXCEPT ![fd].in_use = FALSE]

\* vfs_close_for_pid: vfs_close on every descriptor in use whose owner is pid.
vfs_close_for_pid(ft, pid) ==
  IF pid = 0 THEN ft
  ELSE [f \in Fds |->
          IF ft[f].in_use /\ ft[f].owner_pid = pid
          THEN [ft[f] EXCEPT !.in_use = FALSE] ELSE ft[f]]

\* alloc_pipe: the first pipe with both ends closed, or NULL.
alloc_pipe(ps) ==
  LET free == { i \in PipeIds : ~ps[i].read_open /\ ~ps[i].write_open }
  IN IF free = {} THEN NULL ELSE Min(free)

\* sys_pipe's search of the pipe descriptor range for numbers no open end uses.
pipe_fd_in_use(ps, fd) ==
  \E j \in PipeIds : \/ ps[j].read_open /\ ps[j].read_fd = fd
                     \/ ps[j].write_open /\ ps[j].write_fd = fd

pipe_free_fds(ps) == { fd \in PIPE_FD_FIRST..(PIPE_FD_END - 1) : ~pipe_fd_in_use(ps, fd) }

\* find_pipe_by_fd: the pipe and the end that fd names, or NULL.
find_pipe_by_fd(ps, fd) ==
  LET hit == { i \in PipeIds : \/ ps[i].read_open /\ ps[i].read_fd = fd
                               \/ ps[i].write_open /\ ps[i].write_fd = fd }
  IN IF hit = {} THEN [pipe |-> NULL, is_read |-> FALSE]
     ELSE LET i == Min(hit)
          IN [pipe |-> i, is_read |-> ps[i].read_open /\ ps[i].read_fd = fd]

\* pipe_close: the pipe table with the end named by fd shut.
pipe_close(ps, fd) ==
  LET f == find_pipe_by_fd(ps, fd)
  IN IF f.pipe = NULL THEN ps
     ELSE IF f.is_read THEN [ps EXCEPT ![f.pipe].read_open = FALSE]
     ELSE [ps EXCEPT ![f.pipe].write_open = FALSE]

\* A position that does not move on.
pipe_next_pos_stuck(pos) == pos

\* The step of read_pos and write_pos round the circular buffer.
pipe_next_pos(pos) == (pos + 1) % PIPE_BUF_SIZE

\* The copy loop of pipe_read: n bytes out of the buffer from read_pos on.
RECURSIVE pipe_take(_, _)
pipe_take(d, n) ==
  IF n = 0 THEN [d |-> d, out |-> <<>>]
  ELSE LET r == pipe_take([d EXCEPT !.read_pos = pipe_next_pos(@)], n - 1)
       IN [d |-> r.d, out |-> <<d.buffer[d.read_pos]>> \o r.out]

\* The copy loop of pipe_write: the bytes of src into the buffer from write_pos on.
RECURSIVE pipe_put(_, _)
pipe_put(d, src) ==
  IF src = <<>> THEN d
  ELSE pipe_put([d EXCEPT !.buffer[d.write_pos] = Head(src),
                          !.write_pos = pipe_next_pos(@)], Tail(src))

\* A write that copies every byte of src, with no regard to the space left.
pipe_write_tail_unbounded(d, src) ==
  [d |-> [pipe_put(d, src) EXCEPT !.count = @ + Len(src)], ret |-> Len(src)]

\* pipe_read after its wait loop: min(count, p->count) bytes leave the buffer.
pipe_read_tail(d, count) ==
  LET to_read == IF count > d.count THEN d.count ELSE count
      r       == pipe_take(d, to_read)
  IN [d |-> [r.d EXCEPT !.count = @ - to_read], out |-> r.out, ret |-> to_read]

\* pipe_write after its wait loop: as many bytes of src as there is space for
\* enter the buffer; the read end is not looked at again.
pipe_write_tail(d, src) ==
  LET space    == PIPE_BUF_SIZE - d.count
      to_write == IF Len(src) > space THEN space ELSE Len(src)
  IN [d |-> [pipe_put(d, SubSeq(src, 1, to_write)) EXCEPT !.count = @ + to_write],
      ret |-> to_write]

\* pipe_read up to its wait loop: fail, return EOF, wait, or go on to copy.
pipe_read(ps, pb, fd) ==
  LET f == find_pipe_by_fd(ps, fd)
  IN IF f.pipe = NULL \/ ~f.is_read THEN [kind |-> "ret", ret |-> -ENOENT, pipe |-> NULL]
     ELSE IF ~ps[f.pipe].read_open THEN [kind |-> "ret", ret |-> -EBADF, pipe |-> f.pipe]
     ELSE IF pb[f.pipe].count = 0 /\ ~ps[f.pipe].write_open
     THEN [kind |-> "ret", ret |-> 0, pipe |-> f.pipe]
     ELSE IF pb[f.pipe].count = 0 /\ ps[f.pipe].write_open
     THEN [kind |-> "wait", ret |-> 0, pipe |-> f.pipe]
     ELSE [kind |-> "copy", ret |-> 0, pipe |-> f.pipe]

\* pipe_write up to its wait loop: fail, wait, or go on to copy.
pipe_write(ps, pb, fd) ==
  LET f == find_pipe_by_fd(ps, fd)
  IN IF f.pipe = NULL \/ f.is_read THEN [kind |-> "ret", ret |-> -ENOENT, pipe |-> NULL]
     ELSE IF ~ps[f.pipe].write_open THEN [kind |-> "ret", ret |-> -EBADF, pipe |-> f.pipe]
     ELSE IF ~ps[f.pipe].read_open THEN [kind |-> "ret", ret |-> -EPIPE, pipe |-> f.pipe]
     ELSE IF pb[f.pipe].count >= PIPE_BUF_SIZE /\ ps[f.pipe].read_open
     THEN [kind |-> "wait", ret |-> 0, pipe |-> f.pipe]
     ELSE [kind |-> "copy", ret |-> 0, pipe |-> f.pipe]

\* The bytes a writer passes to write(): the pipe's bytes are numbered in the
\* order they are written, so the next n bytes follow those accepted so far.
WriteSrc(accepted, n) == [k \in 1..n |-> Len(accepted) + k]

(***************************************************************************)
(* Waiting.                                                                *)
(***************************************************************************)
\* The first ZOMBIE child of the process in slot cur, in table order, or NULL.
first_zombie_child(t, cur) ==
  LET z == { i \in Slots : t[i].parent_pid = t[cur].pid /\ t[i].state = "ZOMBIE" }
  IN IF z = {} THEN NULL ELSE Min(z)

\* A child test that forgets to compare the parent PID.
has_children_any(t, cur) ==
  \E i \in Slots : t[i].state # "FREE"

\* proc_waitpid's second scan: some slot in use has the caller as parent.
has_children(t, cur) ==
  \E i \in Slots : t[i].parent_pid = t[cur].pid /\ t[i].state # "FREE"

\* A variant of the wake-up test that forgets "waiting for any child".
exit_wakes_parent_specific_only(t, p) ==
  LET parent == proc_get(t, t[p].parent_pid)
  IN /\ parent # NULL
     /\ t[parent].state = "BLOCKED"
     /\ t[parent].waiting_for_pid = t[p].pid

\* A variant of proc_exit that wakes nobody.
exit_wakes_nobody(t, p) == FALSE

\* proc_exit's wake-up test: the parent exists, is BLOCKED, and is waiting for
\* this PID or for any child.
exit_wakes_parent(t, p) ==
  LET parent == proc_get(t, t[p].parent_pid)
  IN /\ parent # NULL
     /\ t[parent].state = "BLOCKED"
     /\ (t[parent].waiting_for_pid = t[p].pid \/ t[parent].waiting_for_pid = 0)

\* What proc_waitpid decides before it blocks or reaps: kind "ret" (return ret),
\* "block" (block with waiting_for_pid = wait) or "reap" (go on with child).
waitpid_scan(t, cur, pid, options) ==
  IF pid = -1
  THEN LET child == first_zombie_child(t, cur)
       IN IF child # NULL THEN [kind |-> "reap", child |-> child, ret |-> 0, wait |-> 0]
          ELSE IF ~has_children(t, cur)
          THEN [kind |-> "ret", child |-> NULL, ret |-> -ECHILD, wait |-> 0]
          ELSE IF options % 2 = WNOHANG
          THEN [kind |-> "ret", child |-> NULL, ret |-> 0, wait |-> 0]
          ELSE [kind |-> "block", child |-> NULL, ret |-> 0, wait |-> 0]
  ELSE IF pid > 0
  THEN LET child == proc_get(t, pid)
       IN IF child = NULL \/ t[child].parent_pid # t[cur].pid
          THEN [kind |-> "ret", child |-> NULL, ret |-> -ECHILD, wait |-> 0]
          ELSE IF t[child].state # "ZOMBIE"
          THEN IF options % 2 = WNOHANG
               THEN [kind |-> "ret", child |-> NULL, ret |-> 0, wait |-> 0]
               ELSE [kind |-> "block", child |-> NULL, ret |-> 0, wait |-> pid]
          ELSE [kind |-> "reap", child |-> child, ret |-> 0, wait |-> 0]
  ELSE [kind |-> "ret", child |-> NULL, ret |-> -EINVAL, wait |-> 0]

\* The status word proc_waitpid stores: the exit code's low byte, shifted.
wait_status(code) == (code % 256) * 256

\* A reap that frees the resources but leaves the slot a zombie.
reap_table_keep_zombie(t, c) == t

\* Reaping a zombie: the slot becomes FREE.  The other fields of a FREE slot are
\* dead (every read of them in proc.c is guarded by state != FREE, and proc_create
\* and proc_fork overwrite them), so the model keeps FREE slots in one form.
reap_table(t, c) == [t EXCEPT ![c] = FreeSlot]

\* Reaping slot c: the effect on the table, the live resources and the release
\* counts; ret is the value the wait call returns, ws the status word stored.
Reap(t, c, asl, ksl, rel) ==
  LET t1 == reap_table(t, c)
      r1 == [rel EXCEPT ![t[c].pid] =
               [as   |-> Bump(@.as),
                ks   |-> Bump(@.ks),
                slot |-> IF t1[c].state = "FREE" THEN Bump(@.slot) ELSE @.slot]]
  IN [t |-> t1, as |-> asl \ {t[c].cr3}, ks |-> ksl \ {t[c].kernel_stack}, rel |-> r1]

\* The end of proc_waitpid, reached directly or after being woken: fail with
\* ECHILD unless child is a zombie, else store the status, reap, return its PID.
waitpid_tail(t, cur, child, status, asl, ksl, rel, ws) ==
  IF child = NULL \/ t[child].state # "ZOMBIE"
  THEN [t |-> t, as |-> asl, ks |-> ksl, rel |-> rel, ws |-> ws, ret |-> -ECHILD]
  ELSE LET r == Reap(t, child, asl, ksl, rel)
       IN [t |-> r.t, as |-> r.as, ks |-> r.ks, rel |-> r.rel,
           ws |-> IF status THEN wait_status(t[child].exit_code) ELSE ws,
           ret |-> t[child].pid]

\* The end of proc_wait, after being woken (or at once for a zombie): reap the
\* child if it is a zombie and return its exit code, else -1.
proc_wait_tail(t, child, asl, ksl, rel) ==
  IF child # NULL /\ t[child].state = "ZOMBIE"
  THEN LET r == Reap(t, child, asl, ksl, rel)
       IN [t |-> r.t, as |-> r.as, ks |-> r.ks, rel |-> r.rel, ret |-> t[child].exit_code]
  ELSE [t |-> t, as |-> asl, ks |-> ksl, rel |-> rel, ret |-> -1]

(***************************************************************************)
(* Physical memory (pmm.c).  The address of page p is p * PAGE_SIZE.       *)
(***************************************************************************)
\* The boot memory map: low memory and the boot loader's page tables are not
\* usable, everything above is.
MemMap ==
  << [type |-> "reserved", base |-> 0, length |-> 2 * PAGE_SIZE],
     [type |-> "usable", base |-> 2 * PAGE_SIZE, length |-> (MaxFrames - 2) * PAGE_SIZE] >>

UsableEntries(mm) == {i \in DOMAIN mm : mm[i].type = "usable"}

\* pmm_init, first loop: the number of pages below the top of usable memory.
total_pages ==
  LET tops == {MemMap[i].base + MemMap[i].length : i \in UsableEntries(MemMap)}
  IN  (CHOOSE t \in tops : \A u \in tops : u <= t) \div PAGE_SIZE

\* Bytes of the bitmap: whole 64-bit entries.
bitmap_size == ((total_pages + BITS_PER_ENTRY - 1) \div BITS_PER_ENTRY) * 8

\* Pages that have a bit in the bitmap; those from total_pages on do not exist.
PageIds == 0..((bitmap_size \div 8) * BITS_PER_ENTRY - 1)

RECURSIVE CountUsable(_, _)
CountUsable(mm, i) ==
  IF i > Len(mm) THEN 0
  ELSE (IF mm[i].type = "usable"
          THEN (mm[i].base + mm[i].length) \div PAGE_SIZE
               - (mm[i].base + PAGE_SIZE - 1) \div PAGE_SIZE
          ELSE 0) + CountUsable(mm, i + 1)

\* pmm_init: the bitmap is carved out of the first usable entry that can hold
\* it, every bit is set, and the bits of the whole pages left in usable entries
\* are cleared and counted.
pmm_init(mm) ==
  LET fits == {i \in UsableEntries(mm) : mm[i].length >= bitmap_size}
      at == CHOOSE i \in fits : \A j \in fits : i <= j
      m2 == [i \in DOMAIN mm |->
               IF i = at THEN [mm[i] EXCEPT !.base = @ + bitmap_size,
                                            !.length = @ - bitmap_size]
               ELSE mm[i]]
      free == UNION {((m2[i].base + PAGE_SIZE - 1) \div PAGE_SIZE)
                       .. ((m2[i].base + m2[i].length) \div PAGE_SIZE - 1) :
                     i \in UsableEntries(m2)}
  IN  [bitmap |-> [p \in PageIds |-> p \notin free],
       free_pages |-> CountUsable(m2, 1)]

\* pmm_alloc: the first page whose bit is clear is marked and returned; 0 when
\* every bit is set.
pmm_alloc(pm) ==
  LET free == {p \in PageIds : ~pm.bitmap[p]}
  IN  IF free = {} THEN [ret |-> 0, pm |-> pm]
      ELSE LET page == CHOOSE p \in free : \A q \in free : p <= q
           IN  [ret |-> page * PAGE_SIZE,
                pm |-> [bitmap |-> [pm.bitmap EXCEPT ![page] = TRUE],
                        free_pages |-> pm.free_pages - 1]]

\* The scan of pmm_alloc_pages from page p: the first page of the first run of
\* count clear bits below total_pages, or NULL.
RECURSIVE alloc_pages_scan(_, _, _, _, _)
alloc_pages_scan(bm, count, p, consecutive, start_page) ==
  IF p >= total_pages THEN NULL
  ELSE IF ~bm[p]
         THEN LET st == IF consecutive = 0 THEN p ELSE start_page
              IN  IF consecutive + 1 = count THEN st
                  ELSE alloc_pages_scan(bm, count, p + 1, consecutive + 1, st)
         ELSE alloc_pages_scan(bm, count, p + 1, 0, start_page)

pmm_alloc_pages(pm, count) ==
  LET st == alloc_pages_scan(pm.bitmap, count, 0, 0, 0)
  IN  IF st = NULL THEN [ret |-> 0, pm |-> pm]
      ELSE [ret |-> st * PAGE_SIZE,
            pm |-> [bitmap |-> [p \in PageIds |->
                                  IF p \in st..(st + count - 1) THEN TRUE ELSE pm.bitmap[p]],
                    free_pages |-> pm.free_pages - count]]

\* pmm_free with the count left alone.
pmm_free_uncounted(pm, addr) ==
  LET page == addr \div PAGE_SIZE
  IN  IF pm.bitmap[page]
        THEN [pm EXCEPT !.bitmap = [pm.bitmap EXCEPT ![page] = FALSE]]
        ELSE pm

\* pmm_free: a page whose bit is set is cleared and counted; a page whose bit
\* is clear is left alone.
pmm_free(pm, addr) ==
  LET page == addr \div PAGE_SIZE
      Free(pv) == IF pv.bitmap[page]
                    THEN [bitmap |-> [pv.bitmap EXCEPT ![page] = FALSE],
                          free_pages |-> pv.free_pages + 1]
                    ELSE pv
  IN  CHOOSE r \in {Free(pv) : pv \in {pm}} : TRUE

\* pmm_free_pages: the same for count pages from addr on.
RECURSIVE pmm_free_pages(_, _, _)
pmm_free_pages(pm, addr, count) ==
  IF count = 0 THEN pm
  ELSE pmm_free_pages(pmm_free(pm, addr), addr + PAGE_SIZE, count - 1)

\* pmm_get_free
pmm_get_free(pm) == pm.free_pages * PAGE_SIZE

\* The pages of an address range.
PagesOf(addr, count) == {addr \div PAGE_SIZE + k : k \in 0..(count - 1)}

\* The allocator after pmm_init.
InitPmm == pmm_init(MemMap)

\* vmm_init takes the first page for the kernel PML4.
kernel_pml4_phys == pmm_alloc(InitPmm).ret

\* Pages that are allocated and were not reserved by pmm_init.
Held(bm) == {p \in PageIds : bm[p] /\ ~InitPmm.bitmap[p]}

(***************************************************************************)
(* Virtual memory (vmm.c).  A virtual page is the tuple of its four table  *)
(* indices <<pml4, pdpt, pd, pt>>; a table entry is present or not, names  *)
(* a frame and carries the VMM_USER flag.  A frame has two readings, as a  *)
(* table and as data: tables are written through the table reading, leaf   *)
(* pages through the data reading.                                         *)
(***************************************************************************)
FrameIds == 0..(total_pages - 1)
AllIdx == 0..(TABLE_ENTRIES - 1)
\* PML4 entries 0-255 are the user half, 256-511 the kernel half.
LowHalf == 0..(TABLE_ENTRIES \div 2 - 1)
HighHalf == AllIdx \ LowHalf

NoEntry == [present |-> FALSE, frame |-> 0, user |-> FALSE]
EmptyTable == [i \in AllIdx |-> NoEntry]

\* The boot loader's tables: its PML4 maps the kernel half through one PDPT in
\* page 1, which maps low memory.
BootPdpt == 1
old_pml4 ==
  [i \in AllIdx |-> IF i = TABLE_ENTRIES \div 2
                      THEN [present |-> TRUE, frame |-> BootPdpt, user |-> FALSE]
                      ELSE NoEntry]

\* All user virtual pages in the order the nested loops of clone and destroy
\* visit them.
VirtSeq ==
  [k \in 1..(Cardinality(LowHalf) * TABLE_ENTRIES * TABLE_ENTRIES * TABLE_ENTRIES) |->
     << (k - 1) \div (TABLE_ENTRIES * TABLE_ENTRIES * TABLE_ENTRIES),
        ((k - 1) \div (TABLE_ENTRIES * TABLE_ENTRIES)) % TABLE_ENTRIES,
        ((k - 1) \div TABLE_ENTRIES) % TABLE_ENTRIES,
        (k - 1) % TABLE_ENTRIES >>]

\* get_next_level: the table an entry names; a missing one is allocated and
\* zeroed when create is set.  next is NULL for the source's null pointer.
get_next_level(m, table, index, create, user) ==
  LET Level(mv) ==
        LET e == mv.tables[table][index]
            a == pmm_alloc(mv.pm)
            page == a.ret \div PAGE_SIZE
        IN  IF e.present
              THEN [next |-> e.frame,
                    m |-> IF user /\ ~e.user
                            THEN [mv EXCEPT !.tables[table][index].user = TRUE]
                            ELSE mv]
            ELSE IF ~create THEN [next |-> NULL, m |-> mv]
            ELSE IF a.ret = 0 THEN [next |-> NULL, m |-> [mv EXCEPT !.pm = a.pm]]
            ELSE [next |-> page,
                  m |-> [[mv EXCEPT !.pm = a.pm, !.tables[page] = EmptyTable]
                           EXCEPT !.tables[table][index] =
                             [present |-> TRUE, frame |-> page, user |-> user]]]
  IN  CHOOSE r \in {Level(mv) : mv \in {m}} : TRUE

\* vmm_map_in: walk from the PML4 creating the levels, then write the PTE; a
\* level that cannot be created ends the call.
vmm_map_in(m, pml4, virt, phys, user) ==
  CHOOSE r \in
    UNION { IF l3.next = NULL THEN {l3.m} ELSE
      UNION { IF l2.next = NULL THEN {l2.m} ELSE
        { IF l1.next = NULL THEN l1.m
          ELSE [l1.m EXCEPT !.tables[l1.next][virt[4]] =
                  [present |-> TRUE, frame |-> phys \div PAGE_SIZE, user |-> user]] :
          l1 \in {get_next_level(l2.m, l2.next, virt[3], TRUE, user)} } :
        l2 \in {get_next_level(l3.m, l3.next, virt[2], TRUE, user)} } :
      l3 \in {get_next_level(m, pml4, virt[1], TRUE, user)} } : TRUE

\* The PTE of a virtual page in an address space, or NoEntry when a level is
\* missing: the walk of vmm_get_phys_in and of the loops of clone.
LeafEntry(tb, pml4, virt) ==
  LET e4 == tb[pml4][virt[1]]
      e3 == tb[e4.frame][virt[2]]
      e2 == tb[e3.frame][virt[3]]
      e1 == tb[e2.frame][virt[4]]
  IN  IF ~e4.present THEN NoEntry
      ELSE IF ~e3.present THEN NoEntry
      ELSE IF ~e2.present THEN NoEntry
      ELSE IF ~e1.present THEN NoEntry
      ELSE e1

\* vmm_get_phys_in: the frame address in the PTE, or 0 when the page is not
\* mapped.
vmm_get_phys_in(tb, pml4, virt) ==
  IF LeafEntry(tb, pml4, virt).present
    THEN LeafEntry(tb, pml4, virt).frame * PAGE_SIZE
    ELSE 0

\* vmm_get_phys of a page-aligned address (its page offset is 0), in the address
\* space CR3 names.
vmm_get_phys(tb, cr3, virt) ==
  IF LeafEntry(tb, cr3, virt).present
    THEN LeafEntry(tb, cr3, virt).frame * PAGE_SIZE + 0
    ELSE 0

\* vmm_unmap in the address space CR3 names: the PTE is zeroed when the three
\* levels above it exist; no level is created.
vmm_unmap(m, cr3, virt) ==
  LET e4 == m.tables[cr3][virt[1]]
      e3 == m.tables[e4.frame][virt[2]]
      e2 == m.tables[e3.frame][virt[3]]
  IN  IF ~e4.present THEN m
      ELSE IF ~e3.present THEN m
      ELSE IF ~e2.present THEN m
      ELSE [m EXCEPT !.tables[e2.frame][virt[4]] = NoEntry]

\* vmm_create_address_space: a new PML4 with an empty user half and the kernel
\* half copied from the kernel PML4.
vmm_create_address_space(m) ==
  LET Create(mv) ==
        LET a == pmm_alloc(mv.pm)
            page == a.ret \div PAGE_SIZE
        IN  IF a.ret = 0 THEN [ret |-> 0, m |-> [mv EXCEPT !.pm = a.pm]]
            ELSE [ret |-> a.ret,
                  m |-> [mv EXCEPT !.pm = a.pm,
                                   !.tables[page] =
                                      [i \in AllIdx |->
                                         IF i \in LowHalf THEN NoEntry
                                         ELSE mv.tables[kernel_pml4_phys \div PAGE_SIZE][i]]]]
  IN  CHOOSE r \in {Create(mv) : mv \in {m}} : TRUE

\* The frame clone maps into the copy with the source frame in its place.
clone_target_shared(src_phys, dst_page) == src_phys

\* The frame clone maps into the copy: the page it has just allocated.
clone_target(src_phys, dst_page) == dst_page

\* The loops of vmm_clone_address_space from the k-th user page on: every
\* present page gets a new frame with a copy of the contents, mapped in the
\* copy with the flags of the source; 0 is returned when memory runs out.
RECURSIVE clone_walk(_, _, _, _)
clone_walk(m, src, dst, k) ==
  LET Page(mv) ==
        LET e == LeafEntry(mv.tables, src, VirtSeq[k])
            a == pmm_alloc(mv.pm)
            dst_page == a.ret \div PAGE_SIZE
            m1 == [mv EXCEPT !.pm = a.pm, !.data[dst_page] = mv.data[e.frame]]
        IN  IF ~e.present THEN clone_walk(mv, src, dst, k + 1)
            ELSE IF a.ret = 0 THEN [ret |-> 0, m |-> [mv EXCEPT !.pm = a.pm]]
            ELSE clone_walk(vmm_map_in(m1, dst, VirtSeq[k],
                                       clone_target(e.frame, dst_page) * PAGE_SIZE, e.user),
                            src, dst, k + 1)
  IN  IF k > Len(VirtSeq) THEN [ret |-> dst * PAGE_SIZE, m |-> m]
      ELSE CHOOSE r \in {Page(mv) : mv \in {m}} : TRUE

vmm_clone_address_space(m, src) ==
  CHOOSE r \in {IF c.ret = 0 THEN c ELSE clone_walk(c.m, src, c.ret \div PAGE_SIZE, 1) :
                c \in {vmm_create_address_space(m)}} : TRUE

\* Every entry of a table is walked.
walk_indices_all(level) == AllIdx

\* The entries the loops of destroy walk in a table of the given level (4: the
\* PML4, of which only the user half is walked).
walk_indices(level) == IF level = 4 THEN LowHalf ELSE AllIdx

\* The loops of vmm_destroy_user_mappings over one table from entry idx on:
\* for a present entry, first what is below it, then the frame it names.
RECURSIVE destroy_walk(_, _, _, _, _)
destroy_walk(pm, tb, table, level, idx) ==
  LET child == tb[table][idx].frame
      Below(pv) == IF level > 1 THEN destroy_walk(pv, tb, child, level - 1, 0) ELSE pv
      Entry(pv) ==
        IF idx \notin walk_indices(level) \/ ~tb[table][idx].present
          THEN destroy_walk(pv, tb, table, level, idx + 1)
          ELSE destroy_walk(pmm_free(Below(pv), child * PAGE_SIZE), tb, table, level, idx + 1)
  IN  CHOOSE r \in {IF idx >= TABLE_ENTRIES THEN pv ELSE Entry(pv) : pv \in {pm}} : TRUE

\* vmm_destroy_user_mappings: the user half is walked and freed, then the PML4.
vmm_destroy_user_mappings(m, pml4) ==
  [m EXCEPT !.pm = pmm_free(destroy_walk(m.pm, m.tables, pml4, 4, 0), pml4 * PAGE_SIZE)]

\* Memory after pmm_init and vmm_init: the kernel PML4 has an empty user half
\* and the boot loader's kernel half.
InitMem ==
  /\ bitmap = pmm_alloc(InitPmm).pm.bitmap
  /\ free_pages = pmm_alloc(InitPmm).pm.free_pages
  /\ pmm_handed = {kernel_pml4_phys \div PAGE_SIZE}
  /\ pmm_stray = FALSE
  /\ tables = [f \in FrameIds |->
                 IF f = kernel_pml4_phys \div PAGE_SIZE
                   THEN [i \in AllIdx |-> IF i \in HighHalf THEN old_pml4[i] ELSE NoEntry]
                 ELSE IF f = BootPdpt
                   THEN [i \in AllIdx |-> IF i = 0
                                            THEN [present |-> TRUE, frame |-> 0, user |-> FALSE]
                                            ELSE NoEntry]
                 ELSE EmptyTable]
  /\ data = [f \in FrameIds |-> 0]
  /\ spaces = {}
  /\ spaces_made = 0
  /\ clone_src = [f \in FrameIds |-> NULL]

(***************************************************************************)
(* Pointers that system calls take from user mode.  Addresses are AddrBits  *)
(* wide; user space ends below the middle of the address space and the      *)
(* kernel lives in its top quarter, as in memory_layout.h.                  *)
(***************************************************************************)
AddrTop == 2 ^ AddrBits
USER_SPACE_END == AddrTop \div 2 - 16
KERNEL_BASE == AddrTop - AddrTop \div 4

NoAccess == [addr |-> 0, len |-> 0]

vmm_is_user_ptr(ptr) == ptr < USER_SPACE_END

\* vmm_is_user_range: start + size wraps round at the width of an address.
vmm_is_user_range(ptr, size) ==
  LET start == ptr
      end   == (start + size) % AddrTop
  IN  IF end < start THEN FALSE ELSE end <= USER_SPACE_END

(***************************************************************************)
(* The kernel heap (heap.c).  Addresses are offsets from KERNEL_HEAP_BASE,  *)
(* which is page aligned.  The block list is the sequence of the headers    *)
(* from heap_start to heap_end; next and prev are the neighbours in it.     *)
(***************************************************************************)
HEAP_INITIAL_PAGES == 16
HEAP_HEADER_SIZE == 32
HEAP_MIN_ALLOC == 32
HEAP_BLOCK_MAGIC == "DEADBEEF"

\* A heap is heap_start .. heap_end with heap_size, heap_used and heap_next_va.
NoHeap == [blocks |-> <<>>, size |-> 0, used |-> 0, next_va |-> 0]

\* heap_expand: pmm_alloc_pages fails when the pages are not there; otherwise
\* the pages are mapped at heap_next_va and become one free block at the end.
heap_expand(h, pages) ==
  LET n    == IF pages = 0 THEN 1 ELSE pages
      size == n * PAGE_SIZE
  IN  IF h.size \div PAGE_SIZE + n > MaxHeapPages
        THEN [ret |-> -1, h |-> h]
        ELSE [ret |-> 0,
              h   |-> [h EXCEPT !.blocks = Append(@, [magic |-> HEAP_BLOCK_MAGIC,
                                                       addr  |-> h.next_va,
                                                       size  |-> size - HEAP_HEADER_SIZE,
                                                       free  |-> TRUE]),
                                !.next_va = @ + size,
                                !.size = @ + size]]

\* find_free_block that does not look at the free flag: the mutation of
\* find_free_block.
find_any_block(blocks, size) ==
  LET fits == {i \in 1..Len(blocks) : blocks[i].size >= size}
  IN  IF fits = {} THEN 0 ELSE CHOOSE i \in fits : \A j \in fits : i <= j

\* find_free_block: the first free block that fits, as its place in the list
\* (0: none).
find_free_block(blocks, size) ==
  LET fits == {i \in 1..Len(blocks) : blocks[i].free /\ blocks[i].size >= size}
  IN  IF fits = {} THEN 0 ELSE CHOOSE i \in fits : \A j \in fits : i <= j

\* split_block: the block keeps size bytes and the rest becomes a free block
\* behind it, unless the rest is too small to hold a header and a minimal
\* payload.
split_block(blocks, i, size) ==
  LET b         == blocks[i]
      remaining == b.size - size
  IN  IF remaining <= HEAP_HEADER_SIZE + HEAP_MIN_ALLOC
        THEN blocks
        ELSE SubSeq(blocks, 1, i - 1)
             \o <<[b EXCEPT !.size = size],
                  [magic |-> HEAP_BLOCK_MAGIC,
                   addr  |-> b.addr + HEAP_HEADER_SIZE + size,
                   size  |-> remaining - HEAP_HEADER_SIZE,
                   free  |-> TRUE]>>
             \o SubSeq(blocks, i + 1, Len(blocks))

\* The first loop of coalesce: the block absorbs its next block while that one
\* is free.
RECURSIVE merge_next(_, _)
merge_next(blocks, i) ==
  IF i < Len(blocks) /\ blocks[i + 1].free
    THEN merge_next(SubSeq(blocks, 1, i - 1)
                    \o <<[blocks[i] EXCEPT !.size = @ + HEAP_HEADER_SIZE + blocks[i + 1].size]>>
                    \o SubSeq(blocks, i + 2, Len(blocks)), i)
    ELSE blocks

\* The second step of coalesce: a free previous block absorbs the block.
merge_prev(blocks, i) ==
  IF i > 1 /\ blocks[i - 1].free
    THEN SubSeq(blocks, 1, i - 2)
         \o <<[blocks[i - 1] EXCEPT !.size = @ + HEAP_HEADER_SIZE + blocks[i].size]>>
         \o SubSeq(blocks, i + 1, Len(blocks))
    ELSE blocks

\* coalesce that merges forwards only: the mutation of coalesce.
coalesce_next_only(blocks, i) ==
  CHOOSE r \in {merge_next(bl, i) : bl \in {blocks}} : TRUE

\* coalesce.
coalesce(blocks, i) ==
  CHOOSE r \in {merge_prev(bl, i) : bl \in {merge_next(blocks, i)}} : TRUE

\* The size kmalloc works with: rounded up to 16 bytes, at least HEAP_MIN_ALLOC.
AlignedSize(size) ==
  LET a == ((size + 15) \div 16) * 16
  IN  IF a < HEAP_MIN_ALLOC THEN HEAP_MIN_ALLOC ELSE a

\* kmalloc: first fit, after an expansion by at least four pages when nothing
\* fits.  The result is the payload address, or NULL.
kmalloc(h, size) ==
  LET sz       == AlignedSize(size)
      pages    == (sz + HEAP_HEADER_SIZE + PAGE_SIZE - 1) \div PAGE_SIZE
      Take(hv, i) ==
        LET Carve(bl) ==
              [ret |-> bl[i].addr + HEAP_HEADER_SIZE,
               h   |-> [hv EXCEPT !.blocks = [bl EXCEPT ![i].free = FALSE],
                                  !.used = @ + bl[i].size]]
        IN  CHOOSE r \in {Carve(bl) : bl \in {split_block(hv.blocks, i, sz)}} : TRUE
      Grown(e) ==
        IF e.ret # 0 THEN [ret |-> NULL, h |-> h]
        ELSE IF find_free_block(e.h.blocks, sz) = 0 THEN [ret |-> NULL, h |-> e.h]
        ELSE Take(e.h, find_free_block(e.h.blocks, sz))
  IN  IF size = 0 THEN [ret |-> NULL, h |-> h]
      ELSE IF find_free_block(h.blocks, sz) # 0
        THEN Take(h, find_free_block(h.blocks, sz))
      ELSE CHOOSE r \in {Grown(e) : e \in {heap_expand(h, IF pages < 4 THEN 4 ELSE pages)}} : TRUE

\* The header kfree finds in front of ptr, as its place in the list (0: ptr
\* is not the payload of a block of the list).
BlockAt(blocks, ptr) ==
  LET at == {i \in 1..Len(blocks) : blocks[i].addr + HEAP_HEADER_SIZE = ptr}
  IN  IF at = {} THEN 0 ELSE CHOOSE i \in at : TRUE

\* kfree of a pointer whose header is in the list.  kfree returns nothing; ret
\* names the path taken: "kfree_null", "kfree_bad_magic" and "kfree_double_free"
\* (both print and return), or "kfree" when the block was freed.
kfree(h, ptr) ==
  LET i == BlockAt(h.blocks, ptr)
  IN  IF ptr = NULL THEN [ret |-> "kfree_null", h |-> h]
      ELSE IF h.blocks[i].magic # HEAP_BLOCK_MAGIC THEN [ret |-> "kfree_bad_magic", h |-> h]
      ELSE IF h.blocks[i].free THEN [ret |-> "kfree_double_free", h |-> h]
      ELSE [ret |-> "kfree",
            h   |-> [h EXCEPT !.blocks = coalesce([h.blocks EXCEPT ![i].free = TRUE], i),
                              !.used = @ - h.blocks[i].size]]

\* The heap of the state, and the step that replaces it.
Heap == [blocks |-> heap_blocks, size |-> heap_size, used |-> heap_used,
         next_va |-> heap_next_va]

SetHeap(h) ==
  /\ heap_blocks' = h.blocks
  /\ heap_size' = h.size
  /\ heap_used' = h.used
  /\ heap_next_va' = h.next_va

\* heap_init at boot.
heap_init == heap_expand(NoHeap, HEAP_INITIAL_PAGES).h

InitHeap ==
  /\ heap_blocks = heap_init.blocks
  /\ heap_size = heap_init.size
  /\ heap_used = heap_init.used
  /\ heap_next_va = heap_init.next_va
  /\ heap_live = {}
  /\ panicked = FALSE
  /\ uaccess = NoAccess
  /\ ustatus = [i \in Slots |-> 0]

(***************************************************************************)
(* The ext2 driver (ext2.c).  The volume is one small image: blocks of     *)
(* 4 * Ext2PtrsPerBlock bytes, Ext2Groups block groups.  The superblock,   *)
(* the group descriptors, the bitmaps and the inode tables are kept as     *)
(* records; directory blocks, pointer blocks and file data are bytes.      *)
(***************************************************************************)

\* The values of expressions, computed once and handed to F.
Bind1(a, F(_)) == CHOOSE r \in {F(x) : x \in {a}} : TRUE
Bind2(a, b, F(_, _)) == CHOOSE r \in {F(x, y) : x \in {a}, y \in {b}} : TRUE
Bind3(a, b, c, F(_, _, _)) ==
  CHOOSE r \in {F(x, y, z) : x \in {a}, y \in {b}, z \in {c}} : TRUE
Bind4(a, b, c, d, F(_, _, _, _)) ==
  CHOOSE r \in {F(x, y, z, u) : x \in {a}, y \in {b}, z \in {c}, u \in {d}} : TRUE
Bind5(a, b, c, d, e, F(_, _, _, _, _)) ==
  CHOOSE r \in {F(x, y, z, u, v) :
                 x \in {a}, y \in {b}, z \in {c}, u \in {d}, v \in {e}} : TRUE
Bind6(a, b, c, d, e, f, F(_, _, _, _, _, _)) ==
  CHOOSE r \in {F(x, y, z, u, v, w) :
                 x \in {a}, y \in {b}, z \in {c}, u \in {d}, v \in {e}, w \in {f}} : TRUE
Bind(v, F(_)) == Bind1(v, F)

ptrs_per_block == Ext2PtrsPerBlock
block_size == 4 * ptrs_per_block
blocks_per_group == Ext2BlocksPerGroup
inodes_per_group == Ext2InodesPerGroup
groups_count == Ext2Groups
inodes_count == groups_count * inodes_per_group
\* The blocks every group starts with.
GroupLayout == <<"superblock", "group descriptors", "block bitmap", "inode bitmap",
                 "inode table", "inode table">>
\* s_first_data_block of a volume with the smallest block size.
first_data_block == 1
blocks_count == first_data_block + groups_count * blocks_per_group
Groups == 0..(groups_count - 1)
Byte == 0..255

ZeroBlock == [i \in 1..block_size |-> 0]
ZeroInode == [i_mode |-> 0, i_size |-> 0, i_links_count |-> 0, i_blocks |-> 0,
              i_block |-> [i \in 0..(EXT2_N_BLOCKS - 1) |-> 0]]

\* The type bits of a mode: i_mode & EXT2_S_IFMT.
ModeType(mode) == ((mode \div 4096) * 4096) % 65536

\* Little-endian fields of a block, at a byte offset.
RdLE16(b, off) == b[off + 1] + 256 * b[off + 2]
RdLE32(b, off) == b[off + 1] + 256 * b[off + 2] + 65536 * b[off + 3] + 16777216 * b[off + 4]
LE(n, k) == [i \in 1..k |-> (n \div (256 ^ (i - 1))) % 256]
WrBytes(b0, off0, bytes0) ==
  Bind3(b0, off0, bytes0, LAMBDA b, off, bytes : (
  [i \in 1..block_size |-> IF i > off /\ i <= off + Len(bytes) THEN bytes[i - off] ELSE b[i]]
  ))

\* vol_read_block and vol_write_block: blocks never written hold zeroes.
vol_read_block(s0, block0) ==
  Bind2(s0, block0, LAMBDA s, block : (
  IF block \in DOMAIN s.disk.blk THEN s.disk.blk[block] ELSE ZeroBlock
  ))

vol_write_block(s0, block0, buf0) ==
  Bind3(s0, block0, buf0, LAMBDA s, block, buf : (
  LET old == s.disk.blk
      dom == IF buf = ZeroBlock THEN DOMAIN old \ {block} ELSE DOMAIN old \cup {block}
  IN  [s EXCEPT !.disk.blk = [x \in dom |-> IF x = block THEN buf ELSE old[x]]]
  ))

\* The block a freshly made buffer is written to: kzero, then vol_write_block.
zero_block(s, block) == vol_write_block(s, block, ZeroBlock)

\* write_superblock and write_group_descriptors: the cached copies go to disk.
write_superblock(s) == [s EXCEPT !.disk.sb = s.vol.sb]
write_group_descriptors(s) == [s EXCEPT !.disk.gd = s.vol.groups]
flush_metadata(s) == write_group_descriptors(write_superblock(s))

\* bitmap_find_clear: the first clear bit below size, or -1.
bitmap_find_clear(bits0, size0) ==
  Bind2(bits0, size0, LAMBDA bits, size : (
  IF \A b \in 0..(size - 1) : b \in bits THEN -1
  ELSE CHOOSE b \in 0..(size - 1) : b \notin bits /\ \A c \in 0..(b - 1) : c \in bits
  ))

\* alloc_block_in_group: the bit is set on disk, the counters change in memory.
alloc_block_in_group(s0, group0) ==
  Bind2(s0, group0, LAMBDA s, group : (
  LET bit == bitmap_find_clear(s.disk.bbm[group], blocks_per_group)
  IN  IF group >= groups_count THEN [ret |-> 0, s |-> s]
      ELSE IF s.vol.groups[group].bg_free_blocks_count = 0 THEN [ret |-> 0, s |-> s]
      ELSE IF bit = -1 THEN [ret |-> 0, s |-> s]
      ELSE [ret |-> group * blocks_per_group + bit + first_data_block,
            s |-> [s EXCEPT !.disk.bbm[group] = @ \cup {bit},
                            !.vol.groups[group].bg_free_blocks_count = @ - 1,
                            !.vol.sb.s_free_blocks_count = @ - 1]]
  ))

\* The sweep of alloc_block over the groups other than the preferred one.
RECURSIVE alloc_block_sweep(_, _, _)
alloc_block_sweep(s0, preferred_group0, g0) ==
  Bind3(s0, preferred_group0, g0, LAMBDA s, preferred_group, g : (
  IF g >= groups_count THEN [ret |-> 0, s |-> s]
  ELSE IF g = preferred_group THEN alloc_block_sweep(s, preferred_group, g + 1)
  ELSE Bind(alloc_block_in_group(s, g),
            LAMBDA a : IF a.ret # 0 THEN a ELSE alloc_block_sweep(s, preferred_group, g + 1))
  ))

alloc_block(s0, preferred_group0) ==
  Bind2(s0, preferred_group0, LAMBDA s, preferred_group : (
  Bind(alloc_block_in_group(s, preferred_group),
       LAMBDA a : IF a.ret # 0 THEN a ELSE alloc_block_sweep(s, preferred_group, 0))
  ))

\* free_block: the bit is cleared whether or not it was set.
free_block(s0, block0) ==
  Bind2(s0, block0, LAMBDA s, block : (
  LET group == (block - first_data_block) \div blocks_per_group
      bit == (block - first_data_block) % blocks_per_group
  IN  IF block < first_data_block \/ block >= blocks_count THEN s
      ELSE [s EXCEPT !.disk.bbm[group] = @ \ {bit},
                     !.vol.groups[group].bg_free_blocks_count = @ + 1,
                     !.vol.sb.s_free_blocks_count = @ + 1]
  ))

alloc_inode_in_group(s0, group0, is_dir0) ==
  Bind3(s0, group0, is_dir0, LAMBDA s, group, is_dir : (
  LET bit == bitmap_find_clear(s.disk.ibm[group], inodes_per_group)
  IN  IF group >= groups_count THEN [ret |-> 0, s |-> s]
      ELSE IF s.vol.groups[group].bg_free_inodes_count = 0 THEN [ret |-> 0, s |-> s]
      ELSE IF bit = -1 THEN [ret |-> 0, s |-> s]
      ELSE [ret |-> group * inodes_per_group + bit + 1,
            s |-> [s EXCEPT !.disk.ibm[group] = @ \cup {bit},
                            !.vol.groups[group].bg_free_inodes_count = @ - 1,
                            !.vol.sb.s_free_inodes_count = @ - 1,
                            !.vol.groups[group].bg_used_dirs_count =
                               IF is_dir THEN @ + 1 ELSE @]]
  ))

RECURSIVE alloc_inode_sweep(_, _, _, _)
alloc_inode_sweep(s0, preferred_group0, is_dir0, g0) ==
  Bind4(s0, preferred_group0, is_dir0, g0, LAMBDA s, preferred_group, is_dir, g : (
  IF g >= groups_count THEN [ret |-> 0, s |-> s]
  ELSE IF g = preferred_group THEN alloc_inode_sweep(s, preferred_group, is_dir, g + 1)
  ELSE Bind(alloc_inode_in_group(s, g, is_dir),
            LAMBDA a : IF a.ret # 0 THEN a
                       ELSE alloc_inode_sweep(s, preferred_group, is_dir, g + 1))
  ))

alloc_inode(s0, preferred_group0, is_dir0) ==
  Bind3(s0, preferred_group0, is_dir0, LAMBDA s, preferred_group, is_dir : (
  Bind(alloc_inode_in_group(s, preferred_group, is_dir),
       LAMBDA a : IF a.ret # 0 THEN a ELSE alloc_inode_sweep(s, preferred_group, is_dir, 0))
  ))

free_inode(s0, ino0, is_dir0) ==
  Bind3(s0, ino0, is_dir0, LAMBDA s, ino, is_dir : (
  LET group == (ino - 1) \div inodes_per_group
      bit == (ino - 1) % inodes_per_group
  IN  IF ino < 1 \/ ino > inodes_count THEN s
      ELSE [s EXCEPT !.disk.ibm[group] = @ \ {bit},
                     !.vol.groups[group].bg_free_inodes_count = @ + 1,
                     !.vol.sb.s_free_inodes_count = @ + 1,
                     !.vol.groups[group].bg_used_dirs_count =
                        IF is_dir /\ @ > 0 THEN @ - 1 ELSE @]
  ))

\* read_inode and write_inode: one record of the inode table of the group.
read_inode(s, ino) == s.disk.inodes[ino]
write_inode(s0, ino0, inode0) ==
  Bind3(s0, ino0, inode0, LAMBDA s, ino, inode : (
  [s EXCEPT !.disk.inodes[ino] = inode]
  ))

\* A pointer of a pointer block.
RdPtr(buf, idx) == RdLE32(buf, 4 * idx)
WrPtr(buf0, idx0, block0) ==
  Bind3(buf0, idx0, block0, LAMBDA buf, idx, block : (
  WrBytes(buf, 4 * idx, LE(block, 4))
  ))

\* The mutation of get_block_num: only the direct pointers are followed.
get_block_direct(s, inode, file_block) ==
  IF file_block < EXT2_NDIR_BLOCKS THEN inode.i_block[file_block] ELSE 0

\* get_block_num: the block behind a file block, 0 for a hole.
get_block_num(s0, inode0, file_block0) ==
  Bind3(s0, inode0, file_block0, LAMBDA s, inode, file_block : (
  LET P == ptrs_per_block
      fb1 == file_block - EXT2_NDIR_BLOCKS
      fb2 == fb1 - P
      fb3 == fb2 - P * P
      Via(table, idx) == IF table = 0 THEN 0 ELSE RdPtr(vol_read_block(s, table), idx)
  IN  IF file_block < EXT2_NDIR_BLOCKS THEN inode.i_block[file_block]
      ELSE IF fb1 < P THEN Via(inode.i_block[EXT2_IND_BLOCK], fb1)
      ELSE IF fb2 < P * P
        THEN Via(Via(inode.i_block[EXT2_DIND_BLOCK], fb2 \div P), fb2 % P)
      ELSE Via(Via(Via(inode.i_block[EXT2_TIND_BLOCK], fb3 \div (P * P)),
                   (fb3 % (P * P)) \div P),
               (fb3 % (P * P)) % P)
  ))

\* One step of alloc_file_block on a slot of the inode: a missing block is
\* allocated, counted in i_blocks and zeroed.
alloc_slot(s0, inode0, slot0, preferred_group0) ==
  Bind4(s0, inode0, slot0, preferred_group0, LAMBDA s, inode, slot, preferred_group : (
  IF inode.i_block[slot] # 0 THEN [ret |-> inode.i_block[slot], s |-> s, inode |-> inode]
  ELSE Bind(alloc_block(s, preferred_group),
            LAMBDA a :
              IF a.ret = 0 THEN [ret |-> 0, s |-> s, inode |-> inode]
              ELSE [ret |-> a.ret,
                    s |-> zero_block(a.s, a.ret),
                    inode |-> [inode EXCEPT !.i_block[slot] = a.ret,
                                            !.i_blocks = @ + Ext2SectorsPerBlock]])
  ))

\* One step of alloc_file_block on an entry of a pointer block: a missing
\* block is allocated, entered in the pointer block, which is written back,
\* counted in i_blocks and zeroed.
alloc_entry(s0, inode0, table0, idx0, preferred_group0) ==
  Bind5(s0, inode0, table0, idx0, preferred_group0, LAMBDA s, inode, table, idx, preferred_group : (
  LET buf == vol_read_block(s, table)
  IN  IF RdPtr(buf, idx) # 0 THEN [ret |-> RdPtr(buf, idx), s |-> s, inode |-> inode]
      ELSE Bind(alloc_block(s, preferred_group),
                LAMBDA a :
                  IF a.ret = 0 THEN [ret |-> 0, s |-> s, inode |-> inode]
                  ELSE [ret |-> a.ret,
                        s |-> zero_block(vol_write_block(a.s, table, WrPtr(buf, idx, a.ret)),
                                         a.ret),
                        inode |-> [inode EXCEPT !.i_blocks = @ + Ext2SectorsPerBlock]])
  ))

\* The next step of alloc_file_block after the step r, unless r failed.
alloc_then(r, idx, preferred_group) ==
  IF r.ret = 0 THEN r ELSE alloc_entry(r.s, r.inode, r.ret, idx, preferred_group)

\* alloc_file_block: the block behind a file block, every missing level of
\* the tree allocated on the way; 0 when an allocation fails.
alloc_file_block(s0, inode0, file_block0, preferred_group0) ==
  Bind4(s0, inode0, file_block0, preferred_group0, LAMBDA s, inode, file_block, preferred_group : (
  LET P == ptrs_per_block
      pg == preferred_group
      fb1 == file_block - EXT2_NDIR_BLOCKS
      fb2 == fb1 - P
      fb3 == fb2 - P * P
  IN  IF file_block < EXT2_NDIR_BLOCKS THEN alloc_slot(s, inode, file_block, pg)
      ELSE IF fb1 < P
        THEN Bind(alloc_slot(s, inode, EXT2_IND_BLOCK, pg),
                  LAMBDA r1 : alloc_then(r1, fb1, pg))
      ELSE IF fb2 < P * P
        THEN Bind(alloc_slot(s, inode, EXT2_DIND_BLOCK, pg),
                  LAMBDA r1 : Bind(alloc_then(r1, fb2 \div P, pg),
                  LAMBDA r2 : alloc_then(r2, fb2 % P, pg)))
      ELSE Bind(alloc_slot(s, inode, EXT2_TIND_BLOCK, pg),
                LAMBDA r1 : Bind(alloc_then(r1, fb3 \div (P * P), pg),
                LAMBDA r2 : Bind(alloc_then(r2, (fb3 % (P * P)) \div P, pg),
                LAMBDA r3 : alloc_then(r3, (fb3 % (P * P)) % P, pg))))
  ))

\* The loops of free_inode_blocks below one block: at level 0 the block is
\* freed; above, every block its pointers name is freed first.
RECURSIVE free_tree(_, _, _)
RECURSIVE free_entries(_, _, _, _)
free_entries(s0, buf0, level0, i0) ==
  Bind4(s0, buf0, level0, i0, LAMBDA s, buf, level, i : (
  IF i >= ptrs_per_block THEN s
  ELSE Bind(IF RdPtr(buf, i) # 0 THEN free_tree(s, RdPtr(buf, i), level - 1) ELSE s,
            LAMBDA t : free_entries(t, buf, level, i + 1))
  ))

free_tree(s0, block0, level0) ==
  Bind3(s0, block0, level0, LAMBDA s, block, level : (
  IF level = 0 THEN free_block(s, block)
  ELSE Bind(free_entries(s, vol_read_block(s, block), level, 0),
            LAMBDA t : free_block(t, block))
  ))

\* The blocks of slot i of the inode and of the slots after it are freed.
RECURSIVE free_slots(_, _, _)
free_slots(s0, inode0, i0) ==
  Bind3(s0, inode0, i0, LAMBDA s, inode, i : (
  LET level == IF i < EXT2_NDIR_BLOCKS THEN 0 ELSE i - EXT2_NDIR_BLOCKS + 1
  IN  IF i >= EXT2_N_BLOCKS THEN s
      ELSE Bind(IF inode.i_block[i] # 0 THEN free_tree(s, inode.i_block[i], level) ELSE s,
                LAMBDA t : free_slots(t, inode, i + 1))
  ))

\* The mutation of free_inode_blocks: the pointer blocks are not freed.
free_data_only(s0, inode0) ==
  Bind2(s0, inode0, LAMBDA s, inode : (
  [s |-> free_slots(s, [inode EXCEPT !.i_block[EXT2_IND_BLOCK] = 0,
                                     !.i_block[EXT2_DIND_BLOCK] = 0,
                                     !.i_block[EXT2_TIND_BLOCK] = 0], 0),
   inode |-> [inode EXCEPT !.i_block = [i \in 0..(EXT2_N_BLOCKS - 1) |-> 0],
                           !.i_blocks = 0]]
  ))

\* free_inode_blocks: every block of the file is freed, the inode is left
\* without blocks.
free_inode_blocks(s0, inode0) ==
  Bind2(s0, inode0, LAMBDA s, inode : (
  [s |-> free_slots(s, inode, 0),
   inode |-> [inode EXCEPT !.i_block = [i \in 0..(EXT2_N_BLOCKS - 1) |-> 0],
                           !.i_blocks = 0]]
  ))

\* The records of a directory block from a byte offset on, as the loops of
\* dir_find_entry, dir_add_entry, dir_remove_entry and dir_is_empty walk
\* them: up to the end of the block or a record of length 0.
RECURSIVE dir_entries(_, _)
dir_entries(buf0, off0) ==
  Bind2(buf0, off0, LAMBDA buf, off : (
  IF off >= block_size THEN <<>>
  ELSE LET rec_len == RdLE16(buf, off + 4)
           name_len == buf[off + 7]
       IN  IF rec_len = 0 THEN <<>>
           ELSE <<[off |-> off, inode |-> RdLE32(buf, off), rec_len |-> rec_len,
                   name_len |-> name_len, file_type |-> buf[off + 8],
                   name |-> [i \in 1..name_len |-> buf[off + 8 + i]]]>>
                \o dir_entries(buf, off + rec_len)
  ))

\* A directory record as bytes: inode, rec_len, name_len, file_type, name.
dirent_bytes(inode0, rec_len0, name0, file_type0) ==
  Bind4(inode0, rec_len0, name0, file_type0, LAMBDA inode, rec_len, name, file_type : (
  LE(inode, 4) \o LE(rec_len, 2) \o <<Len(name), file_type>> \o name
  ))

\* The blocks of a directory its loops visit, in order: holes are skipped.
dir_blocks_of(s0, dir_inode0) ==
  Bind2(s0, dir_inode0, LAMBDA s, dir_inode : (
  LET n == (dir_inode.i_size + block_size - 1) \div block_size
      F[b \in 0..n] ==
        IF b = n THEN <<>>
        ELSE (IF get_block_num(s, dir_inode, b) = 0 THEN <<>>
              ELSE <<get_block_num(s, dir_inode, b)>>) \o F[b + 1]
  IN  F[0]
  ))

\* The records of every block of a directory, block by block.
dir_records(s0, dir_inode0) ==
  Bind2(s0, dir_inode0, LAMBDA s, dir_inode :
    Bind1(dir_blocks_of(s, dir_inode), LAMBDA blocks :
      [k \in 1..Len(blocks) |->
         [block |-> blocks[k], es |-> dir_entries(vol_read_block(s, blocks[k]), 0)]]))

\* The first of a set of pairs <<block index, record index>>.
first_pair(hits) ==
  CHOOSE h \in hits : \A g \in hits : h[1] < g[1] \/ (h[1] = g[1] /\ h[2] <= g[2])

\* The record of the directory that carries the name, with its block and the
\* record before it in that block (0: it is the first); <<>> when there is none.
dir_locate(s0, dir_inode0, name0) ==
  Bind2(dir_records(s0, dir_inode0), name0, LAMBDA recs, name :
    Bind1({<<k, i>> \in (1..Len(recs)) \X (1..block_size) :
             /\ i <= Len(recs[k].es)
             /\ recs[k].es[i].inode # 0
             /\ recs[k].es[i].name = name},
          LAMBDA hits :
            IF hits = {} THEN <<>>
            ELSE Bind1(first_pair(hits), LAMBDA h :
                   <<[block |-> recs[h[1]].block, de |-> recs[h[1]].es[h[2]],
                      prev |-> IF h[2] = 1 THEN 0 ELSE recs[h[1]].es[h[2] - 1].off + 1]>>)))

\* dir_find_entry: the inode and the type behind a name.
dir_find_entry(s0, dir_inode0, name0) ==
  Bind3(s0, dir_inode0, name0, LAMBDA s, dir_inode, name : (
  Bind(dir_locate(s, dir_inode, name),
       LAMBDA h : IF h = <<>> THEN [ret |-> -ENOENT, ino |-> 0, type |-> 0]
                  ELSE [ret |-> 0, ino |-> h[1].de.inode, type |-> h[1].de.file_type])
  ))

\* The length a record needs for its name, a multiple of 4.
dirent_len(name_len) == ((8 + name_len + 3) \div 4) * 4

\* dir_add_entry: the first record with enough room behind its name is
\* split; when there is none the directory gets a new block.  The room is an
\* unsigned difference: a record shorter than its name needs counts as huge.
dir_add_entry(s0, dir_ino0, dir_inode0, name0, inode_num0, file_type0) ==
  Bind6(s0, dir_ino0, dir_inode0, name0, inode_num0, file_type0,
        LAMBDA s, dir_ino, dir_inode, name, inode_num, file_type : (
  LET needed_len == dirent_len(Len(name))
      preferred_grp == (dir_ino - 1) \div inodes_per_group
      n == (dir_inode.i_size + block_size - 1) \div block_size
      Split(blk, de) ==
        LET buf == vol_read_block(s, blk)
            actual_len == dirent_len(de.name_len)
            new_rec_len == de.rec_len - actual_len
        IN  Bind1(WrBytes(buf, de.off + 4, LE(actual_len, 2)), LAMBDA b1 :
              [ret |-> 0,
               s |-> vol_write_block(s, blk,
                       WrBytes(b1, de.off + actual_len,
                               dirent_bytes(inode_num, new_rec_len % 65536, name, file_type))),
               dir_inode |-> dir_inode])
      Grow(a) ==
        IF a.ret = 0 THEN [ret |-> -ENOSPC, s |-> a.s, dir_inode |-> a.inode]
        ELSE LET grown == [a.inode EXCEPT !.i_size = @ + block_size]
                 buf == WrBytes(ZeroBlock, 0,
                                dirent_bytes(inode_num, block_size, name, file_type))
             IN  [ret |-> 0,
                  s |-> write_inode(vol_write_block(a.s, a.ret, buf), dir_ino, grown),
                  dir_inode |-> grown]
  IN  Bind1(dir_records(s, dir_inode), LAMBDA recs :
        Bind1({<<k, i>> \in (1..Len(recs)) \X (1..block_size) :
                 /\ i <= Len(recs[k].es)
                 /\ \/ recs[k].es[i].rec_len < dirent_len(recs[k].es[i].name_len)
                    \/ recs[k].es[i].rec_len - dirent_len(recs[k].es[i].name_len)
                         >= needed_len},
              LAMBDA room :
                IF room # {}
                  THEN Bind1(first_pair(room), LAMBDA h :
                         Split(recs[h[1]].block, recs[h[1]].es[h[2]]))
                  ELSE Bind1(alloc_file_block(s, dir_inode, n, preferred_grp), Grow)))
  ))

\* dir_remove_entry: the record is added to the one before it in its block,
\* or, being the first of its block, gets the inode number 0.
dir_remove_entry(s0, dir_inode0, name0) ==
  Bind3(s0, dir_inode0, name0, LAMBDA s, dir_inode, name : (
  LET Remove(h) ==
        LET buf == vol_read_block(s, h.block)
            prev_len == RdLE16(buf, h.prev + 3)
        IN  IF h.prev # 0
              THEN WrBytes(buf, h.prev + 3, LE((prev_len + h.de.rec_len) % 65536, 2))
              ELSE WrBytes(buf, h.de.off, LE(0, 4))
  IN  Bind(dir_locate(s, dir_inode, name),
           LAMBDA h : IF h = <<>> THEN [ret |-> -ENOENT, s |-> s]
                      ELSE [ret |-> 0, s |-> vol_write_block(s, h[1].block, Remove(h[1]))])
  ))

Dot == <<46>>
DotDot == <<46, 46>>

\* dir_is_empty: no record in use other than "." and "..".
dir_is_empty(s0, dir_inode0) ==
  Bind1(dir_records(s0, dir_inode0), LAMBDA recs :
    \A k \in 1..Len(recs) : \A i \in 1..Len(recs[k].es) :
       \/ recs[k].es[i].inode = 0
       \/ recs[k].es[i].name = Dot
       \/ recs[k].es[i].name = DotDot)

\* resolve_path from the inode cur on, over the components of the path.
RECURSIVE resolve_from(_, _, _, _)
resolve_from(s0, path0, k0, cur0) ==
  Bind4(s0, path0, k0, cur0, LAMBDA s, path, k, cur : (
  IF k > Len(path) THEN [ret |-> 0, ino |-> cur, inode |-> read_inode(s, cur)]
  ELSE IF ModeType(read_inode(s, cur).i_mode) # EXT2_S_IFDIR
    THEN [ret |-> -ENOTDIR, ino |-> 0, inode |-> ZeroInode]
  ELSE Bind(dir_find_entry(s, read_inode(s, cur), path[k]),
            LAMBDA f : IF f.ret < 0 THEN [ret |-> -ENOENT, ino |-> 0, inode |-> ZeroInode]
                       ELSE resolve_from(s, path, k + 1, f.ino))
  ))

\* resolve_path: a path is the sequence of its components.
resolve_path(s, path) == resolve_from(s, path, 1, EXT2_ROOT_INODE)

\* path_split: the directory part and the last component.
path_parent(path) == SubSeq(path, 1, Len(path) - 1)
path_name(path) == IF path = <<>> THEN <<>> ELSE path[Len(path)]

FileIds == 0..(EXT2_MAX_FILES - 1)
NoFile == [in_use |-> FALSE, inode_num |-> 0, inode |-> ZeroInode, position |-> 0,
           is_dir |-> FALSE, dirty |-> FALSE]

\* The first free entry of g_files, or NULL.
free_file_slot(s0) ==
  Bind1(s0, LAMBDA s : (
  IF \A f \in FileIds : s.files[f].in_use THEN NULL
  ELSE CHOOSE f \in FileIds : ~s.files[f].in_use /\ \A g \in 0..(f - 1) : s.files[g].in_use
  ))

\* ext2_mount: the superblock and the group descriptors are read from disk.
ext2_mount(s0) ==
  Bind1(s0, LAMBDA s : (
  [s EXCEPT !.vol = [mounted |-> TRUE, sb |-> s.disk.sb, groups |-> s.disk.gd]]
  ))

\* ext2_open: the handle caches the inode the path names.
ext2_open(s0, path0) ==
  Bind2(s0, path0, LAMBDA s, path : (
  LET file == free_file_slot(s)
      Fill(r) ==
        IF r.ret < 0 THEN [ret |-> NULL, s |-> s]
        ELSE [ret |-> file,
              s |-> [s EXCEPT !.files[file] =
                       [in_use |-> TRUE, inode_num |-> r.ino, inode |-> r.inode,
                        position |-> 0,
                        is_dir |-> ModeType(r.inode.i_mode) = EXT2_S_IFDIR,
                        dirty |-> FALSE]]]
  IN  IF ~s.vol.mounted THEN [ret |-> NULL, s |-> s]
      ELSE IF file = NULL THEN [ret |-> NULL, s |-> s]
      ELSE Bind(resolve_path(s, path), Fill)
  ))

\* ext2_close: a dirty handle writes its inode and flushes the metadata.
ext2_close(s0, file0) ==
  Bind2(s0, file0, LAMBDA s, file : (
  LET f == s.files[file]
      written == IF f.dirty THEN flush_metadata(write_inode(s, f.inode_num, f.inode)) ELSE s
  IN  IF ~f.in_use THEN s
      ELSE [written EXCEPT !.files[file].in_use = FALSE]
  ))

\* The byte of a file at a position, as ext2_read copies it: zero in a hole.
file_byte(s0, inode0, pos0) ==
  Bind3(s0, inode0, pos0, LAMBDA s, inode, pos : (
  LET block_num == get_block_num(s, inode, pos \div block_size)
  IN  IF block_num = 0 THEN 0 ELSE vol_read_block(s, block_num)[(pos % block_size) + 1]
  ))

\* ext2_read: at most count bytes from the position on, up to the file size.
ext2_read(s0, file0, count0) ==
  Bind3(s0, file0, count0, LAMBDA s, file, count : (
  LET f == s.files[file]
      n == IF f.position >= f.inode.i_size THEN 0
           ELSE IF f.position + count > f.inode.i_size THEN f.inode.i_size - f.position
           ELSE count
  IN  IF ~f.in_use \/ f.is_dir THEN [ret |-> -EINVAL, data |-> <<>>, s |-> s]
      ELSE [ret |-> n,
            data |-> [i \in 1..n |-> file_byte(s, f.inode, f.position + i - 1)],
            s |-> [s EXCEPT !.files[file].position = @ + n]]
  ))

\* One round of the loop of ext2_write on the handle w.file: a missing block
\* is allocated, the block is read unless it is written whole, the bytes are
\* copied and the block is written.
write_round(w0, buf0) ==
  Bind2(w0, buf0, LAMBDA w, buf : (
  LET f == w.s.files[w.file]
      count == Len(buf)
      file_block == f.position \div block_size
      block_offset == f.position % block_size
      preferred_grp == (f.inode_num - 1) \div inodes_per_group
      found == get_block_num(w.s, f.inode, file_block)
      Copy(s1, inode1, block_num, dirty1) ==
        LET left == count - w.written
            to_write == IF block_size - block_offset > left THEN left
                        ELSE block_size - block_offset
            block_buf == IF block_offset # 0 \/ left < block_size
                           THEN vol_read_block(s1, block_num) ELSE ZeroBlock
            out == WrBytes(block_buf, block_offset,
                           SubSeq(buf, w.written + 1, w.written + to_write))
            position == f.position + to_write
            grows == position > inode1.i_size
        IN  [w EXCEPT !.s = [vol_write_block(s1, block_num, out) EXCEPT
                               !.files[w.file].inode =
                                  [inode1 EXCEPT !.i_size = IF grows THEN position ELSE @],
                               !.files[w.file].position = position,
                               !.files[w.file].dirty = dirty1 \/ grows],
                      !.written = @ + to_write]
      Alloc(a) ==
        IF a.ret = 0
          THEN [w EXCEPT !.s = [a.s EXCEPT !.files[w.file].inode = a.inode],
                         !.done = TRUE,
                         !.ret = IF w.written > 0 THEN w.written ELSE -ENOSPC]
          ELSE Copy(a.s, a.inode, a.ret, TRUE)
  IN  IF w.done \/ w.written >= count THEN w
      ELSE IF found # 0 THEN Copy(w.s, f.inode, found, f.dirty)
      ELSE Bind(alloc_file_block(w.s, f.inode, file_block, preferred_grp), Alloc)
  ))

\* n rounds of the loop of ext2_write.
RECURSIVE write_rounds(_, _, _)
write_rounds(w0, buf0, n0) ==
  Bind3(w0, buf0, n0, LAMBDA w, buf, n : (
  IF n = 0 THEN w
  ELSE IF n = 1 THEN write_round(w, buf)
  ELSE Bind(write_rounds(w, buf, n \div 2),
            LAMBDA x : write_rounds(x, buf, n - n \div 2))
  ))


\* ext2_write's last step: a dirty handle writes its inode, and nothing else.
write_back(s0, file0) ==
  Bind2(s0, file0, LAMBDA s, file : (
  IF s.files[file].dirty
    THEN write_inode(s, s.files[file].inode_num, s.files[file].inode)
    ELSE s
  ))

\* ext2_write: the bytes of buf go to the file from the position on.
ext2_write(s0, file0, buf0) ==
  Bind3(s0, file0, buf0, LAMBDA s, file, buf : (
  LET f == s.files[file]
      count == Len(buf)
      rounds == (f.position + count - 1) \div block_size - f.position \div block_size + 1
      End(w) == IF w.done THEN [ret |-> w.ret, s |-> w.s]
                ELSE [ret |-> w.written, s |-> write_back(w.s, file)]
  IN  IF ~f.in_use \/ f.is_dir THEN [ret |-> -EINVAL, s |-> s]
      ELSE IF count = 0 THEN [ret |-> 0, s |-> s]
      ELSE Bind(write_rounds([s |-> s, file |-> file, written |-> 0, done |-> FALSE,
                              ret |-> 0], buf, rounds), End)
  ))

\* ext2_truncate: the blocks are freed, the inode is written and the
\* metadata is flushed.
ext2_truncate(s0, file0) ==
  Bind2(s0, file0, LAMBDA s, file : (
  LET f == s.files[file]
      Done(r) ==
        LET inode == [r.inode EXCEPT !.i_size = 0]
            s1 == [r.s EXCEPT !.files[file].inode = inode,
                              !.files[file].position = 0,
                              !.files[file].dirty = FALSE]
        IN  [ret |-> 0, s |-> flush_metadata(write_inode(s1, f.inode_num, inode))]
  IN  IF ~f.in_use \/ f.is_dir THEN [ret |-> -EINVAL, s |-> s]
      ELSE Bind(free_inode_blocks(s, f.inode), Done)
  ))

\* ext2_create: an existing path is opened; otherwise an inode is allocated
\* and written, the name is entered in the parent and the metadata is flushed.
ext2_create(s0, path0) ==
  Bind2(s0, path0, LAMBDA s, path : (
  LET file == free_file_slot(s)
      filename == path_name(path)
      new_inode == [ZeroInode EXCEPT !.i_mode = EXT2_S_IFREG + 420, !.i_links_count = 1]
      Enter(new_ino, d) ==
        IF d.ret < 0 THEN [ret |-> NULL, s |-> free_inode(d.s, new_ino, FALSE)]
        ELSE [ret |-> file,
              s |-> [flush_metadata(d.s) EXCEPT !.files[file] =
                       [in_use |-> TRUE, inode_num |-> new_ino, inode |-> new_inode,
                        position |-> 0, is_dir |-> FALSE, dirty |-> FALSE]]]
      Make(parent, a) ==
        IF a.ret = 0 THEN [ret |-> NULL, s |-> a.s]
        ELSE Bind(dir_add_entry(write_inode(a.s, a.ret, new_inode), parent.ino,
                                parent.inode, filename, a.ret, EXT2_FT_REG_FILE),
                  LAMBDA d : Enter(a.ret, d))
      InParent(parent) ==
        IF parent.ret < 0 THEN [ret |-> NULL, s |-> s]
        ELSE IF ModeType(parent.inode.i_mode) # EXT2_S_IFDIR THEN [ret |-> NULL, s |-> s]
        ELSE Bind(alloc_inode(s, (parent.ino - 1) \div inodes_per_group, FALSE),
                  LAMBDA a : Make(parent, a))
  IN  IF ~s.vol.mounted THEN [ret |-> NULL, s |-> s]
      ELSE IF resolve_path(s, path).ret = 0 THEN ext2_open(s, path)
      ELSE IF file = NULL THEN [ret |-> NULL, s |-> s]
      ELSE IF filename = <<>> THEN [ret |-> NULL, s |-> s]
      ELSE Bind(resolve_path(s, path_parent(path)), InParent)
  ))

\* ext2_mkdir: an inode and a first block with "." and ".." are allocated, the
\* name is entered in the parent, whose link count grows, and the metadata is
\* flushed.
ext2_mkdir(s0, path0) ==
  Bind2(s0, path0, LAMBDA s, path : (
  LET dirname == path_name(path)
      Body(parent) ==
        LET preferred_grp == (parent.ino - 1) \div inodes_per_group
            Block(new_ino, b) ==
              LET new_inode == [ZeroInode EXCEPT !.i_mode = EXT2_S_IFDIR + 493,
                                                 !.i_size = block_size,
                                                 !.i_links_count = 2,
                                                 !.i_block[0] = b.ret,
                                                 !.i_blocks = Ext2SectorsPerBlock]
                  buf == WrBytes(WrBytes(ZeroBlock, 0, dirent_bytes(new_ino, 12, Dot, EXT2_FT_DIR)),
                                 12, dirent_bytes(parent.ino, block_size - 12, DotDot,
                                                  EXT2_FT_DIR))
                  s1 == write_inode(vol_write_block(b.s, b.ret, buf), new_ino, new_inode)
                  Entered(d) ==
                    IF d.ret < 0
                      THEN [ret |-> -EIO,
                            s |-> free_inode(free_block(d.s, b.ret), new_ino, TRUE)]
                      ELSE [ret |-> 0,
                            s |-> flush_metadata(
                                    write_inode(d.s, parent.ino,
                                                [d.dir_inode EXCEPT !.i_links_count =
                                                   (@ + 1) % 65536]))]
              IN  IF b.ret = 0 THEN [ret |-> -ENOSPC, s |-> free_inode(b.s, new_ino, TRUE)]
                  ELSE Bind(dir_add_entry(s1, parent.ino, parent.inode, dirname, new_ino,
                                          EXT2_FT_DIR), Entered)
            Inode(a) ==
              IF a.ret = 0 THEN [ret |-> -ENOSPC, s |-> a.s]
              ELSE Bind(alloc_block(a.s, preferred_grp), LAMBDA b : Block(a.ret, b))
        IN  IF parent.ret < 0 THEN [ret |-> -ENOENT, s |-> s]
            ELSE IF ModeType(parent.inode.i_mode) # EXT2_S_IFDIR THEN [ret |-> -ENOTDIR, s |-> s]
            ELSE Bind(alloc_inode(s, preferred_grp, TRUE), Inode)
  IN  IF ~s.vol.mounted THEN [ret |-> -EINVAL, s |-> s]
      ELSE IF resolve_path(s, path).ret = 0 THEN [ret |-> -EEXIST, s |-> s]
      ELSE IF dirname = <<>> THEN [ret |-> -EINVAL, s |-> s]
      ELSE Bind(resolve_path(s, path_parent(path)), Body)
  ))

\* ext2_unlink: the name leaves the parent; with the last link gone the
\* blocks and the inode are freed; the metadata is flushed.
ext2_unlink(s0, path0) ==
  Bind2(s0, path0, LAMBDA s, path : (
  LET Body(file, parent) ==
        LET Gone(d) ==
              LET links == (file.inode.i_links_count - 1) % 65536
                  kept == [file.inode EXCEPT !.i_links_count = links]
              IN  IF d.ret < 0 THEN [ret |-> -EIO, s |-> d.s]
                  ELSE IF links = 0
                    THEN [ret |-> 0,
                          s |-> flush_metadata(
                                  free_inode(free_inode_blocks(d.s, kept).s, file.ino, FALSE))]
                  ELSE [ret |-> 0, s |-> flush_metadata(write_inode(d.s, file.ino, kept))]
        IN  IF parent.ret < 0 THEN [ret |-> -ENOENT, s |-> s]
            ELSE Bind(dir_remove_entry(s, parent.inode, path_name(path)), Gone)
      Found(file) ==
        IF file.ret < 0 THEN [ret |-> -ENOENT, s |-> s]
        ELSE IF ModeType(file.inode.i_mode) = EXT2_S_IFDIR THEN [ret |-> -EISDIR, s |-> s]
        ELSE Bind(resolve_path(s, path_parent(path)), LAMBDA parent : Body(file, parent))
  IN  IF ~s.vol.mounted THEN [ret |-> -EINVAL, s |-> s]
      ELSE Bind(resolve_path(s, path), Found)
  ))

\* ext2_rmdir: an empty directory leaves its parent, whose link count
\* shrinks; its blocks and its inode are freed; the metadata is flushed.
ext2_rmdir(s0, path0) ==
  Bind2(s0, path0, LAMBDA s, path : (
  LET Body(dir, parent) ==
        LET Gone(d) ==
              LET s1 == write_inode(d.s, parent.ino,
                                    [parent.inode EXCEPT !.i_links_count = (@ - 1) % 65536])
              IN  IF d.ret < 0 THEN [ret |-> -EIO, s |-> d.s]
                  ELSE [ret |-> 0,
                        s |-> flush_metadata(
                                free_inode(free_inode_blocks(s1, dir.inode).s, dir.ino, TRUE))]
        IN  IF parent.ret < 0 THEN [ret |-> -ENOENT, s |-> s]
            ELSE Bind(dir_remove_entry(s, parent.inode, path_name(path)), Gone)
      Found(dir) ==
        IF dir.ret < 0 THEN [ret |-> -ENOENT, s |-> s]
        ELSE IF ModeType(dir.inode.i_mode) # EXT2_S_IFDIR THEN [ret |-> -ENOTDIR, s |-> s]
        ELSE IF ~dir_is_empty(s, dir.inode) THEN [ret |-> -ENOTEMPTY, s |-> s]
        ELSE Bind(resolve_path(s, path_parent(path)), LAMBDA parent : Body(dir, parent))
  IN  IF ~s.vol.mounted THEN [ret |-> -EINVAL, s |-> s]
      ELSE IF path = <<>> THEN [ret |-> -EINVAL, s |-> s]
      ELSE Bind(resolve_path(s, path), Found)
  ))

\* The image mkfs leaves: every group starts with its metadata blocks, the
\* root directory has one block with "." and "..".
root_block == first_data_block + Len(GroupLayout)
MkfsBlockBits(g) == {b \in 0..(blocks_per_group - 1) :
                       b < Len(GroupLayout) \/ (g = 0 /\ b = Len(GroupLayout))}
MkfsInodeBits(g) == IF g = 0 THEN {0, EXT2_ROOT_INODE - 1} ELSE {}
MkfsGroups ==
  [g \in Groups |->
     [bg_free_blocks_count |-> blocks_per_group - Cardinality(MkfsBlockBits(g)),
      bg_free_inodes_count |-> inodes_per_group - Cardinality(MkfsInodeBits(g)),
      bg_used_dirs_count |-> IF g = 0 THEN 1 ELSE 0]]
RECURSIVE SumGroups(_, _)
SumGroups(gd, g) ==
  IF g >= groups_count THEN [blocks |-> 0, inodes |-> 0]
  ELSE [blocks |-> gd[g].bg_free_blocks_count + SumGroups(gd, g + 1).blocks,
        inodes |-> gd[g].bg_free_inodes_count + SumGroups(gd, g + 1).inodes]
MkfsImage ==
  [sb |-> [s_free_blocks_count |-> SumGroups(MkfsGroups, 0).blocks,
           s_free_inodes_count |-> SumGroups(MkfsGroups, 0).inodes],
   gd |-> MkfsGroups,
   bbm |-> [g \in Groups |-> MkfsBlockBits(g)],
   ibm |-> [g \in Groups |-> MkfsInodeBits(g)],
   inodes |-> [i \in 1..inodes_count |->
                 IF i = EXT2_ROOT_INODE
                   THEN [ZeroInode EXCEPT !.i_mode = EXT2_S_IFDIR + 493,
                                          !.i_size = block_size,
                                          !.i_links_count = 2,
                                          !.i_blocks = Ext2SectorsPerBlock,
                                          !.i_block[0] = root_block]
                   ELSE ZeroInode],
   blk |-> [b \in {root_block} |->
              WrBytes(WrBytes(ZeroBlock, 0,
                              dirent_bytes(EXT2_ROOT_INODE, 12, Dot, EXT2_FT_DIR)),
                      12, dirent_bytes(EXT2_ROOT_INODE, block_size - 12, DotDot,
                                       EXT2_FT_DIR))]]

\* The driver's state as one record, and back.
Fs == [disk |-> e2_disk, vol |-> e2_vol, files |-> e2_files]
SetFs(s) ==
  /\ e2_disk' = s.disk
  /\ e2_vol' = s.vol
  /\ e2_files' = s.files

\* The paths the calls are made with, as sequences of components.
NameA == <<97>>
NameB == <<98>>
NameD == <<100>>
Paths == <<(<<NameA>>), (<<NameB>>), (<<NameD>>), (<<NameD, NameA>>)>>
PathIds == 1..Len(Paths)

\* What the calls so far should have left: per path the bytes of the file,
\* the bytes the last read returned, and the counter of free blocks before
\* the write of a new file of 13 blocks.
NoMark == [file |-> NULL, free |-> 0]
\* What the callers have seen: the bytes written to each path, how far each
\* path is through create (1), write (2), close (3), a fresh mount (4), open
\* (5) and read (6), the paths that were unlinked and not made again, the
\* bytes of the last read, the free count from before the write of a file
\* of 13 blocks, and how many times truncate, unlink and rmdir gave blocks or
\* inodes back.
NoStage == [p \in PathIds |-> 0]
NoGhost == [want |-> [p \in PathIds |-> <<>>], stage |-> NoStage, gone |-> {},
            data |-> <<>>, mark |-> NoMark, released |-> 0]

\* ext2_init and ext2_mount at boot.
ext2_boot(disk) ==
  ext2_mount([disk |-> disk,
              vol |-> [mounted |-> FALSE, sb |-> disk.sb, groups |-> disk.gd],
              files |-> [f \in FileIds |-> NoFile]])

InitExt2 ==
  /\ e2_disk = MkfsImage
  /\ e2_vol = ext2_boot(MkfsImage).vol
  /\ e2_files = ext2_boot(MkfsImage).files
  /\ e2_path = [f \in FileIds |-> 0]
  /\ e2_ghost = NoGhost

(***************************************************************************)
(* The ramfs files of vfs.c.  After init_storage every path is on ramfs:   *)
(* vfs_mount knows the types "fat32" and "ramfs" only, so the mount of the *)
(* root as "ext2" fails and no descriptor carries a FAT32 file.            *)
(***************************************************************************)
\* The bytes of a file after bytes went to it at a position.
Overlay(old, pos, bytes) ==
  LET n == IF Len(old) > pos + Len(bytes) THEN Len(old) ELSE pos + Len(bytes)
  IN  [i \in 1..n |-> IF i > pos /\ i <= pos + Len(bytes) THEN bytes[i - pos]
                      ELSE IF i <= Len(old) THEN old[i] ELSE 0]

\* The byte sequence of scenario S3: the values below S3Wrap, four times.
S3Pattern == [i \in 1..(4 * S3Wrap) |-> (i - 1) % S3Wrap]

HasFlag(flags, bit) == (flags \div bit) % 2 = 1

\* create_node for a file: no bytes, no buffer.
NewRamNode == [exists |-> TRUE, data |-> <<>>, size |-> 0, capacity |-> 0]
NoRamNode == [exists |-> FALSE, data |-> <<>>, size |-> 0, capacity |-> 0]

\* The descriptors, the node of /f and back.
Vfs == [ft |-> fd_table, ff |-> fd_file, node |-> ram_f]

\* vfs_open of /f on ramfs for the process owner: the node is resolved, or
\* created under O_CREAT; the first free descriptor from 3 up gets offset,
\* flags, in_use and owner_pid.  The node field of the descriptor is not
\* written.
vfs_open(v, owner, flags) ==
  LET n == IF ~v.node.exists /\ HasFlag(flags, O_CREAT) THEN NewRamNode ELSE v.node
      fd == vfs_free_fd(v.ft)
  IN  IF ~n.exists THEN [ret |-> -1, v |-> v]
      ELSE IF fd = NULL THEN [ret |-> -1, v |-> [v EXCEPT !.node = n]]
      ELSE [ret |-> fd,
            v |-> [ft |-> [v.ft EXCEPT ![fd] = [in_use |-> TRUE, owner_pid |-> owner]],
                   ff |-> [v.ff EXCEPT
                             ![fd].offset = IF HasFlag(flags, O_APPEND) THEN n.size ELSE 0],
                   node |-> IF HasFlag(flags, O_TRUNC) THEN [n EXCEPT !.size = 0] ELSE n]]

\* vfs_write on a ramfs descriptor: the node is read from the descriptor; a
\* NULL node makes the first read of node->capacity fault.
vfs_write(v, fd, buf) ==
  IF fd < 0 \/ fd >= VFS_MAX_FD \/ ~v.ft[fd].in_use
    THEN [ret |-> -1, fault |-> FALSE, v |-> v]
  ELSE IF v.ff[fd].node = NULL THEN [ret |-> 0, fault |-> TRUE, v |-> v]
  ELSE LET end_pos == v.ff[fd].offset + Len(buf)
           new_cap == IF end_pos < RamMinCapacity THEN RamMinCapacity ELSE end_pos * 2
           bytes == Overlay(v.node.data, v.ff[fd].offset, buf)
       IN  [ret |-> Len(buf), fault |-> FALSE,
            v |-> [v EXCEPT
                     !.ff[fd].offset = end_pos,
                     !.node.data = bytes,
                     !.node.capacity = IF end_pos > @ THEN new_cap ELSE @,
                     !.node.size = IF end_pos > @ THEN end_pos ELSE @]]

\* vfs_read on a ramfs descriptor: a NULL node makes the read of node->size
\* fault.
vfs_read(v, fd, count) ==
  IF fd < 0 \/ fd >= VFS_MAX_FD \/ ~v.ft[fd].in_use
    THEN [ret |-> -1, fault |-> FALSE, data |-> <<>>, v |-> v]
  ELSE IF v.ff[fd].node = NULL THEN [ret |-> 0, fault |-> TRUE, data |-> <<>>, v |-> v]
  ELSE IF v.ff[fd].offset >= v.node.size
    THEN [ret |-> 0, fault |-> FALSE, data |-> <<>>, v |-> v]
  ELSE LET available == v.node.size - v.ff[fd].offset
           to_read == IF count < available THEN count ELSE available
       IN  [ret |-> to_read, fault |-> FALSE,
            data |-> SubSeq(v.node.data, v.ff[fd].offset + 1, v.ff[fd].offset + to_read),
            v |-> [v EXCEPT !.ff[fd].offset = @ + to_read]]

\* vfs_init: kzero(fd_table); /f does not exist.
NoS3 == [stage |-> 0, fd |-> NULL, data |-> <<>>]
InitVfs ==
  /\ fd_file = [f \in Fds |-> [node |-> NULL, offset |-> 0]]
  /\ ram_f = NoRamNode
  /\ s3 = NoS3

(***************************************************************************)
(* Paths of the ramfs and the working directory (vfs.c).  The text of an   *)
(* absolute path is "/" followed by its components joined by "/": <<>> is  *)
(* "/", <<"dev", "">> is "/dev/" and <<"dev", "", "a">> is "/dev//a".  A   *)
(* node of the tree is named by the components on the way to it from the   *)
(* root.                                                                   *)
(***************************************************************************)
RootNode == <<>>
NoNode == [ok |-> FALSE, node |-> <<>>]
AbsPath(comps) == [abs |-> TRUE, comps |-> comps]
RelPath(comps) == [abs |-> FALSE, comps |-> comps]

\* kstrlen of the text of an absolute path.
RECURSIVE PathChars(_)
PathChars(comps) ==
  IF comps = <<>> THEN 0 ELSE 1 + Len(Head(comps)) + PathChars(Tail(comps))
PathLen(comps) == IF comps = <<>> THEN 1 ELSE PathChars(comps)

\* The ".." step of normalize_path: the last character goes, then everything
\* back to the preceding slash, which stays unless it is the leading one.
normalize_back(out) ==
  IF out = <<>> THEN out
  ELSE LET k == IF out[Len(out)] = "" THEN Len(out) - 2 ELSE Len(out) - 1
       IN  IF k <= 0 THEN <<>> ELSE Append(SubSeq(out, 1, k), "")

\* normalize_path: runs of slashes and "." are skipped, ".." steps back, any
\* other component is appended after a slash.
RECURSIVE normalize_from(_, _)
normalize_from(out, comps) ==
  IF comps = <<>> THEN out
  ELSE LET c == Head(comps)
       IN  normalize_from(IF c = "" \/ c = "." THEN out
                          ELSE IF c = ".." THEN normalize_back(out)
                          ELSE Append(out, c),
                          Tail(comps))
normalize_path(comps) == normalize_from(<<>>, comps)

\* make_absolute_path: a relative path is appended to cwd, then normalised.
make_absolute_path(wd, path) ==
  normalize_path(IF path.abs THEN path.comps ELSE wd \o path.comps)

NodeExists(t, n) == n \in t.dirs \cup t.files
NodeParent(n) == IF n = RootNode THEN RootNode ELSE SubSeq(n, 1, Len(n) - 1)

\* The first loop of resolve_path: the node of cwd, or the root when a
\* component of cwd has no node.
RECURSIVE resolve_cwd(_, _, _)
resolve_cwd(t, node, comps) ==
  IF comps = <<>> THEN node
  ELSE IF Head(comps) = "" THEN resolve_cwd(t, node, Tail(comps))
  ELSE IF NodeExists(t, Append(node, Head(comps)))
    THEN resolve_cwd(t, Append(node, Head(comps)), Tail(comps))
  ELSE RootNode

\* The second loop of resolve_path.
RECURSIVE vfs_resolve_from(_, _, _)
vfs_resolve_from(t, node, comps) ==
  IF comps = <<>> THEN [ok |-> TRUE, node |-> node]
  ELSE LET c == Head(comps)
       IN  IF c = "" \/ c = "." THEN vfs_resolve_from(t, node, Tail(comps))
           ELSE IF c = ".." THEN vfs_resolve_from(t, NodeParent(node), Tail(comps))
           ELSE IF node \notin t.dirs THEN NoNode
           ELSE IF ~NodeExists(t, Append(node, c)) THEN NoNode
           ELSE vfs_resolve_from(t, Append(node, c), Tail(comps))

\* resolve_path of vfs.c: NULL for the empty text, from the root for an
\* absolute path, from the node of cwd otherwise.
vfs_resolve_path(t, wd, path) ==
  IF ~path.abs /\ path.comps = <<>> THEN NoNode
  ELSE vfs_resolve_from(t, IF path.abs THEN RootNode ELSE resolve_cwd(t, RootNode, wd),
                    path.comps)

\* resolve_parent of an absolute path: the node of the text before the last
\* slash, and the text after it.
resolve_parent(t, wd, comps) ==
  IF Len(comps) <= 1 THEN [ok |-> TRUE, node |-> RootNode]
  ELSE vfs_resolve_path(t, wd, AbsPath(SubSeq(comps, 1, Len(comps) - 1)))

\* vfs_mkdir: -1 when the path exists, when its parent is no directory or
\* when create_node gets no memory.
vfs_mkdir(t, wd, path, mem) ==
  LET abs_path == make_absolute_path(wd, path)
      parent == resolve_parent(t, wd, abs_path)
  IN  IF vfs_resolve_path(t, wd, AbsPath(abs_path)).ok THEN [ret |-> -1, t |-> t]
      ELSE IF ~parent.ok \/ parent.node \notin t.dirs \/ ~mem THEN [ret |-> -1, t |-> t]
      ELSE [ret |-> 0,
            t |-> [t EXCEPT !.dirs = @ \cup {Append(parent.node, abs_path[Len(abs_path)])}]]

\* vfs_unlink on ramfs: only a file is removed.
vfs_unlink(t, wd, path) ==
  LET node == vfs_resolve_path(t, wd, AbsPath(make_absolute_path(wd, path)))
  IN  IF ~node.ok THEN [ret |-> -ENOENT, t |-> t]
      ELSE IF node.node \notin t.files THEN [ret |-> -EISDIR, t |-> t]
      ELSE [ret |-> 0, t |-> [t EXCEPT !.files = @ \ {node.node}]]

\* vfs_chdir on ramfs: the path as given must resolve to a directory; cwd
\* becomes the normalised absolute text.
vfs_chdir(t, wd, path) ==
  LET node == vfs_resolve_path(t, wd, path)
  IN  IF ~node.ok \/ node.node \notin t.dirs THEN [ret |-> -1, wd |-> wd]
      ELSE [ret |-> 0, wd |-> make_absolute_path(wd, path)]

\* vfs_getcwd returns the one buffer of vfs.c.
vfs_getcwd(wd) == wd

\* vfs_getdents: a descriptor that is not open, or a ramfs descriptor, whose
\* node is NULL, gives -1.
vfs_getdents(ft, ff, fd) ==
  IF fd < 0 \/ fd >= VFS_MAX_FD \/ ~ft[fd].in_use THEN -1
  ELSE IF ff[fd].node = NULL THEN -1
  ELSE 0

\* The handlers of syscalls.c.  a.ptr is the pointer argument, a.n the size
\* or count, a.fd the descriptor, a.path the text a.ptr points to, a.mem
\* whether the heap has memory left.
sys_getdents(st, a) ==
  [st EXCEPT !.ret =
     IF a.ptr = 0 THEN -EFAULT
     ELSE IF ~vmm_is_user_range(a.ptr, a.n) THEN -EFAULT
     ELSE IF a.n < 32 THEN -EINVAL
     ELSE IF vfs_getdents(st.ft, st.ff, a.fd) < 0 THEN -EBADF
     ELSE vfs_getdents(st.ft, st.ff, a.fd)]
sys_getdents64(st, a) == sys_getdents(st, a)
sys_getcwd(st, a) ==
  [st EXCEPT !.ret =
     IF a.ptr = 0 THEN -EFAULT
     ELSE IF a.n = 0 THEN -EINVAL
     ELSE IF ~vmm_is_user_range(a.ptr, a.n) THEN -EFAULT
     ELSE IF PathLen(vfs_getcwd(st.cwd)) + 1 > a.n THEN -ERANGE
     ELSE PathLen(vfs_getcwd(st.cwd)) + 1]
sys_chdir(st, a) ==
  IF a.ptr = 0 THEN [st EXCEPT !.ret = -EFAULT]
  ELSE LET r == vfs_chdir(st.tree, st.cwd, a.path)
       IN  [st EXCEPT !.ret = IF r.ret < 0 THEN -ENOENT ELSE 0, !.cwd = r.wd]
sys_mkdir(st, a) ==
  IF a.ptr = 0 THEN [st EXCEPT !.ret = -EFAULT]
  ELSE LET r == vfs_mkdir(st.tree, st.cwd, a.path, a.mem)
       IN  [st EXCEPT !.ret = IF r.ret < 0 THEN -ENOENT ELSE 0, !.tree = r.t]
sys_unlink(st, a) ==
  IF a.ptr = 0 THEN [st EXCEPT !.ret = -EFAULT]
  ELSE LET r == vfs_unlink(st.tree, st.cwd, a.path)
       IN  [st EXCEPT !.ret = IF r.ret < 0 THEN -ENOENT ELSE 0, !.tree = r.t]

\* syscall_table: the handler at each of the directory numbers, "NULL" where
\* the table has no initialiser.
syscall_table(num) ==
  CASE num = SYS_GETDENTS -> "sys_getdents"
    [] num = SYS_GETCWD -> "sys_getcwd"
    [] num = SYS_CHDIR -> "sys_chdir"
    [] num = SYS_MKDIR -> "sys_mkdir"
    [] num = SYS_UNLINK -> "sys_unlink"
    [] num = SYS_GETDENTS64 -> "sys_getdents64"
    [] OTHER -> "NULL"

\* syscall_dispatch on the directory numbers.
syscall_dispatch(st, num, a) ==
  IF num >= SYS_MAX \/ syscall_table(num) = "NULL" THEN [st EXCEPT !.ret = -ENOSYS]
  ELSE CASE syscall_table(num) = "sys_getdents" -> sys_getdents(st, a)
         [] syscall_table(num) = "sys_getdents64" -> sys_getdents64(st, a)
         [] syscall_table(num) = "sys_getcwd" -> sys_getcwd(st, a)
         [] syscall_table(num) = "sys_chdir" -> sys_chdir(st, a)
         [] syscall_table(num) = "sys_mkdir" -> sys_mkdir(st, a)
         [] syscall_table(num) = "sys_unlink" -> sys_unlink(st, a)

\* vfs_init: the root, /dev and the four device nodes; cwd is "/".
NotSeen == [known |-> FALSE, path |-> <<>>]
NoCwdCall == [had |-> NotSeen, got |-> NotSeen]
InitCwd ==
  /\ ram_tree = [dirs |-> {RootNode, <<"dev">>},
                 files |-> {<<"dev", "hda">>, <<"dev", "hdb">>,
                            <<"dev", "hdc">>, <<"dev", "hdd">>}]
  /\ cwd = <<>>
  /\ cwd_seen = [seen |-> [p \in Pids |-> NotSeen], last |-> NoCwdCall]

(***************************************************************************)
(* The task scheduler.                                                     *)
(***************************************************************************)
idle_task == 0

\* The ring walked from cur->next round to cur itself (do ... while(t != start)).
RingFrom(list, cur) ==
  LET n   == Len(list)
      pos == CHOOSE i \in 1..n : list[i] = cur
  IN [i \in 1..n |-> list[((pos + i - 1) % n) + 1]]

\* A search that starts at the head of the list instead of at current->next.
find_next_ready_from_head(ts, cur, list) ==
  LET hits == { i \in 1..Len(list) : ts[list[i]] = "READY" }
  IN IF hits = {} THEN idle_task ELSE list[Min(hits)]

\* find_next_ready: the first READY task after the current one in ring order;
\* the idle task when none is READY.
find_next_ready(ts, cur, list) ==
  LET ring == RingFrom(list, cur)
      hits == { i \in 1..Len(ring) : ts[ring[i]] = "READY" }
  IN IF hits = {} THEN idle_task ELSE ring[Min(hits)]

\* task_list_add / task_list_remove on the ring.
task_list_add(list, t) == Append(list, t)
task_list_remove(list, t) == SelectSeq(list, LAMBDA x : x # t)

\* sched_yield's decision: the states, the slice counters and the task that
\* runs next.  A RUNNING caller becomes READY first; when the search returns
\* the caller itself it is made RUNNING again and nothing is switched.
sched_yield(ts, tr, cur, list) ==
  LET ts1  == IF ts[cur] = "RUNNING" THEN [ts EXCEPT ![cur] = "READY"] ELSE ts
      next == find_next_ready(ts1, cur, list)
  IN IF next = cur
     THEN [tstate |-> [ts1 EXCEPT ![cur] = "RUNNING"], ticks |-> tr, current |-> cur]
     ELSE [tstate |-> [ts1 EXCEPT ![next] = "RUNNING"],
           ticks  |-> [tr EXCEPT ![next] = DEFAULT_TIME_SLICE],
           current |-> next]

\* A tick handler that switches tasks itself when the slice is used up.
sched_tick_switching(ts, tr, cur, list, nr) ==
  LET left == IF tr[cur] > 0 THEN tr[cur] - 1 ELSE 0
      y    == sched_yield(ts, [tr EXCEPT ![cur] = left], cur, list)
  IN IF left = 0
     THEN [tstate |-> y.tstate, ticks |-> y.ticks, current |-> y.current, need |-> nr]
     ELSE [tstate |-> ts, ticks |-> [tr EXCEPT ![cur] = left], current |-> cur, need |-> nr]

\* sched_tick: count the current task's slice down; once it is used up, flag
\* the reschedule.  States and the current task are passed through untouched.
sched_tick(ts, tr, cur, list, nr) ==
  LET left == IF tr[cur] > 0 THEN tr[cur] - 1 ELSE 0
  IN [tstate |-> ts, ticks |-> [tr EXCEPT ![cur] = left], current |-> cur,
      need |-> (nr \/ left = 0)]

\* sched_unblock: a BLOCKED task becomes READY again.
sched_unblock(ts, t) == IF ts[t] = "BLOCKED" THEN [ts EXCEPT ![t] = "READY"] ELSE ts

\* An IRQ handler that completes the command without waking the waiter.
ata_irq_wake_skipped(ts, w) == ts

\* The tail of ata_irq: if the channel has a waiter, sched_unblock it.
ata_irq_wake(ts, w) == IF w # NULL THEN sched_unblock(ts, w) ELSE ts

\* sched_block: the current task marks itself BLOCKED (then calls sched_yield).
sched_block(ts, cur) == [ts EXCEPT ![cur] = "BLOCKED"]

\* Where a task continues once context_switch returns into it: a new task
\* starts its entry function, a task suspended in sched_yield returns to its
\* caller, one suspended under sched_block returns into wait_irq's loop.
resume_pc(pc) ==
  CASE pc = "new" -> "run"
    [] pc = "in_yield" -> "run"
    [] pc = "in_block" -> "wait_irq"
    [] OTHER -> pc

\* A command issue that records nobody as the waiter.
prepare_irq_wait_no_waiter(cur) == [state |-> "PENDING", waiter |-> NULL]

\* prepare_irq_wait: the channel is PENDING and the current task its waiter.
prepare_irq_wait(cur) == [state |-> "PENDING", waiter |-> cur]

\* The tail of sched_yield as the CPU sees it: switch to y.current (or stay),
\* set the interrupt flag, and continue there.  susp is where the caller is
\* parked when it is switched out, back where it continues when it is not.
Switch(y, susp, back) ==
  /\ tstate' = y.tstate
  /\ ticks_remaining' = y.ticks
  /\ current_task' = y.current
  /\ intr' = TRUE
  /\ tpc' = IF y.current = current_task
            THEN [tpc EXCEPT ![current_task] = back]
            ELSE [tpc EXCEPT ![current_task] = susp,
                             ![y.current] = resume_pc(tpc[y.current])]

\* The CPU is executing the current task's code: no raised IRQ is deliverable.
Executing == ~(intr /\ irq_line)

\* The process, descriptor and pipe tables before the first process exists.
InitProc ==
  /\ proc_table = [i \in Slots |-> FreeSlot]
  /\ current_proc = NULL
  /\ next_pid = 1
  /\ kpc = "boot"
  /\ cpu = NoFrame
  /\ wstatus = -1
  /\ as_live = {}
  /\ ks_live = {}
  /\ released = [p \in Pids |-> [as |-> 0, ks |-> 0, slot |-> 0]]
  /\ fd_table = [f \in Fds |-> [in_use |-> FALSE, owner_pid |-> 0]]
  /\ pipes = [i \in PipeIds |-> ClosedPipe]
  /\ pipe_creator = [i \in PipeIds |-> 0]
  /\ pipe_buf = [i \in PipeIds |-> EmptyPipeData]
  /\ pipe_wait = NoPipeWait
  /\ pipe_in = [i \in PipeIds |-> <<>>]
  /\ pipe_out = [i \in PipeIds |-> <<>>]
  /\ xfer = NoXfer
  /\ InitMem
  /\ InitHeap
  /\ InitExt2
  /\ InitVfs
  /\ InitCwd
  /\ op = [name |-> "init", ret |-> 0, arg |-> <<>>]

\* The ATA channel after ata_init: idle, nobody waiting.
InitAta ==
  /\ ch_state = "IDLE"
  /\ ch_waiter = NULL
  /\ hw_busy = FALSE
  /\ irq_line = FALSE
  /\ elapsed = 0

\* sched_init: the boot context becomes the idle task, RUNNING and current.
sched_init ==
  /\ task_list = <<idle_task>>
  /\ tstate = [t \in TaskIds |-> IF t = idle_task THEN "RUNNING" ELSE "NONE"]
  /\ ticks_remaining = [t \in TaskIds |-> IF t = idle_task THEN DEFAULT_TIME_SLICE ELSE 0]
  /\ current_task = idle_task
  /\ need_resched = FALSE
  /\ intr = TRUE
  /\ tpc = [t \in TaskIds |-> IF t = idle_task THEN "run" ELSE "none"]
  /\ awaiting = {}
  /\ slices = [t \in TaskIds |-> 0]

Init == InitProc /\ InitAta /\ sched_init

\* The scheduler with every task created (sched_init, then task_create for each):
\* the idle task runs its first slice, the others are READY and not yet started.
InitTasks ==
  /\ task_list = [i \in 1..(MaxTasks + 1) |-> i - 1]
  /\ tstate = [t \in TaskIds |-> IF t = idle_task THEN "RUNNING" ELSE "READY"]
  /\ ticks_remaining = [t \in TaskIds |-> DEFAULT_TIME_SLICE]
  /\ current_task = idle_task
  /\ need_resched = FALSE
  /\ intr = TRUE
  /\ tpc = [t \in TaskIds |-> IF t = idle_task THEN "run" ELSE "new"]
  /\ awaiting = {}
  /\ slices = [t \in TaskIds |-> IF t = idle_task THEN 1 ELSE 0]

(***************************************************************************)
(* Handlers of the process subsystem.                                      *)
(***************************************************************************)
\* proc_start_first (kmain -> launch_init): create the first process and jump
\* to it; when creation fails kmain falls into its idle loop.
ProcStartFirst(fail) ==
  /\ kpc = "boot"
  /\ LET r == proc_create(proc_table, NULL, next_pid, as_live, ks_live, fail)
     IN /\ as_live' = r.as
        /\ ks_live' = r.ks
        /\ IF r.pid = 0
           THEN /\ proc_table' = r.t
                /\ kpc' = "halt"
                /\ UNCHANGED <<current_proc, next_pid, cpu>>
           ELSE LET p == proc_get(r.t, r.pid)
                IN /\ proc_table' = [r.t EXCEPT ![p].state = "RUNNING"]
                   /\ current_proc' = p
                   /\ next_pid' = next_pid + 1
                   /\ cpu' = [rax |-> 0, rip |-> r.t[p].user_rip,
                              rsp |-> r.t[p].user_rsp, rflags |-> r.t[p].user_rflags]
                   /\ kpc' = "user"
        /\ op' = [name |-> "proc_start_first", ret |-> r.pid, arg |-> <<>>]
  /\ UNCHANGED <<wstatus, released, fdVars, schedVars, otherVars>>

\* User code runs: the process moves to another user context.
UserStep(ctx) ==
  /\ kpc = "user"
  /\ ctx # [rip |-> cpu.rip, rsp |-> cpu.rsp, rflags |-> cpu.rflags]
  /\ cpu' = [rax |-> 0, rip |-> ctx.rip, rsp |-> ctx.rsp, rflags |-> ctx.rflags]
  /\ op' = [name |-> "user", ret |-> 0, arg |-> <<>>]
  /\ UNCHANGED <<proc_table, current_proc, next_pid, kpc, wstatus, as_live,
                 ks_live, released, fdVars, schedVars, otherVars>>

\* sys_fork -> proc_fork, then return to the parent with the result in RAX.
SysFork(fail) ==
  /\ kpc = "user"
  /\ next_pid <= MaxPid
  /\ LET frame == syscall_frame(SYS_FORK)
         r == proc_fork(proc_table, current_proc, next_pid, as_live, ks_live, frame, fail)
     IN /\ proc_table' = r.t
        /\ as_live' = r.as
        /\ ks_live' = r.ks
        /\ next_pid' = IF r.ret > 0 THEN next_pid + 1 ELSE next_pid
        /\ cpu' = [frame EXCEPT !.rax = r.ret]
        /\ op' = [name |-> "fork", ret |-> r.ret, arg |-> <<>>]
  /\ UNCHANGED <<current_proc, kpc, wstatus, released, fdVars, schedVars, otherVars>>

\* sys_execve: load the image into a new process (proc_create), then proc_wait
\* for it; file_ok is whether the executable could be read.
SysExecve(file_ok, fail) ==
  /\ kpc = "user"
  /\ next_pid <= MaxPid
  /\ LET frame == syscall_frame(SYS_EXECVE)
         r     == proc_create(proc_table, current_proc, next_pid, as_live, ks_live, fail)
     IN IF ~file_ok
        THEN /\ cpu' = [frame EXCEPT !.rax = -ENOENT]
             /\ op' = [name |-> "execve", ret |-> -ENOENT, arg |-> <<>>]
             /\ UNCHANGED <<proc_table, current_proc, next_pid, kpc, as_live, ks_live>>
        ELSE IF r.pid = 0
        THEN /\ proc_table' = r.t
             /\ as_live' = r.as
             /\ ks_live' = r.ks
             /\ cpu' = [frame EXCEPT !.rax = -ENOMEM]
             /\ op' = [name |-> "execve", ret |-> -ENOMEM, arg |-> <<>>]
             /\ UNCHANGED <<current_proc, next_pid, kpc>>
        ELSE \* proc_wait(child_pid): the child was just created, so block for it
             /\ as_live' = r.as
             /\ ks_live' = r.ks
             /\ next_pid' = next_pid + 1
             /\ Schedule([r.t EXCEPT ![current_proc] =
                            [@ EXCEPT !.state = "BLOCKED",
                                      !.waiting_for_pid = r.pid,
                                      !.saved_rsp = "proc_wait",
                                      !.karg = r.pid,
                                      !.frame = frame]])
             /\ cpu' = NoFrame
             /\ op' = [name |-> "execve_block", ret |-> r.pid, arg |-> <<>>]
  /\ UNCHANGED <<wstatus, released, fdVars, schedVars, otherVars>>

\* sys_wait4 -> proc_waitpid(pid, status, options); status tells whether the
\* status pointer is non-NULL.
SysWait4Body(pid, options, status) ==
  /\ kpc = "user"
  /\ LET frame == syscall_frame(SYS_WAIT4)
         d     == waitpid_scan(proc_table, current_proc, pid, options)
     IN CASE d.kind = "ret" ->
               /\ cpu' = [frame EXCEPT !.rax = d.ret]
               /\ op' = [name |-> "wait4", ret |-> d.ret, arg |-> <<pid, options>>]
               /\ UNCHANGED <<proc_table, current_proc, kpc, wstatus, as_live,
                              ks_live, released>>
          [] d.kind = "reap" ->
               LET r == waitpid_tail(proc_table, current_proc, d.child, status,
                                     as_live, ks_live, released, wstatus)
               IN /\ proc_table' = r.t
                  /\ as_live' = r.as
                  /\ ks_live' = r.ks
                  /\ released' = r.rel
                  /\ wstatus' = r.ws
                  /\ cpu' = [frame EXCEPT !.rax = r.ret]
                  /\ op' = [name |-> "wait4", ret |-> r.ret, arg |-> <<pid, options>>]
                  /\ UNCHANGED <<current_proc, kpc>>
          [] d.kind = "block" ->
               /\ Schedule([proc_table EXCEPT ![current_proc] =
                              [@ EXCEPT !.state = "BLOCKED",
                                        !.waiting_for_pid = d.wait,
                                        !.saved_rsp = IF pid = -1 THEN "waitpid_any"
                                                      ELSE "waitpid_pid",
                                        !.karg = pid,
                                        !.kstatus = status,
                                        !.frame = frame]])
               /\ cpu' = NoFrame
               /\ op' = [name |-> "wait4_block", ret |-> d.wait, arg |-> <<pid, options>>]
               /\ UNCHANGED <<wstatus, as_live, ks_live, released>>
  /\ UNCHANGED <<next_pid, fdVars, schedVars, pipeVars, devCore>>

SysWait4(pid, options, status) ==
  SysWait4Body(pid, options, status) /\ UNCHANGED userVars

\* A process switched to for the first time enters user mode: proc_enter_first_time
\* (iretq to the ELF entry) or proc_fork_child_entry (pop the copied frame, sysret).
EnterUser ==
  /\ kpc = "switched"
  /\ LET p == proc_table[current_proc]
     IN /\ p.saved_rsp \in {"proc_enter_first_time", "proc_fork_child_entry"}
        /\ cpu' = IF p.saved_rsp = "proc_fork_child_entry" THEN p.frame
                  ELSE [rax |-> 0, rip |-> p.user_rip, rsp |-> p.user_rsp,
                        rflags |-> p.user_rflags]
        /\ proc_table' = [proc_table EXCEPT ![current_proc].saved_rsp = "none",
                                            ![current_proc].frame = NoFrame]
        /\ op' = [name |-> p.saved_rsp, ret |-> cpu'.rax, arg |-> <<>>]
  /\ kpc' = "user"
  /\ UNCHANGED <<current_proc, next_pid, wstatus, as_live, ks_live, released, fdVars, schedVars, otherVars>>

\* A process that blocked in proc_wait or proc_waitpid is switched back to and
\* runs the rest of the call.
WaitResumeBody ==
  /\ kpc = "switched"
  /\ LET p == proc_table[current_proc]
     IN /\ p.saved_rsp \in {"proc_wait", "waitpid_any", "waitpid_pid"}
        /\ LET cleared == [proc_table EXCEPT ![current_proc].saved_rsp = "none",
                                             ![current_proc].frame = NoFrame,
                                             ![current_proc].karg = 0,
                                             ![current_proc].kstatus = FALSE]
               child == IF p.saved_rsp = "waitpid_any"
                        THEN first_zombie_child(proc_table, current_proc)
                        ELSE proc_get(proc_table, p.karg)
           IN IF p.saved_rsp = "proc_wait"
              THEN LET r == proc_wait_tail(cleared, child, as_live, ks_live, released)
                   IN /\ proc_table' = r.t
                      /\ as_live' = r.as
                      /\ ks_live' = r.ks
                      /\ released' = r.rel
                      /\ cpu' = [p.frame EXCEPT !.rax = r.ret]
                      /\ op' = [name |-> "proc_wait_resume", ret |-> r.ret, arg |-> <<p.karg>>]
                      /\ UNCHANGED wstatus
              ELSE LET r == waitpid_tail(cleared, current_proc, child, p.kstatus,
                                         as_live, ks_live, released, wstatus)
                   IN /\ proc_table' = r.t
                      /\ as_live' = r.as
                      /\ ks_live' = r.ks
                      /\ released' = r.rel
                      /\ wstatus' = r.ws
                      /\ cpu' = [p.frame EXCEPT !.rax = r.ret]
                      /\ op' = [name |-> "wait4_resume", ret |-> r.ret, arg |-> <<p.karg, 0>>]
  /\ kpc' = "user"
  /\ UNCHANGED <<current_proc, next_pid, fdVars, schedVars, pipeVars, devCore>>

WaitResume == WaitResumeBody /\ UNCHANGED userVars

\* sys_exit -> proc_exit, first part: record the exit code and mark the
\* process ZOMBIE.
ProcExit(code) ==
  /\ kpc = "user"
  /\ proc_table' = [proc_table EXCEPT ![current_proc].exit_code = code,
                                      ![current_proc].state = "ZOMBIE"]
  /\ kpc' = "exit_close"
  /\ cpu' = NoFrame
  /\ op' = [name |-> "exit", ret |-> code, arg |-> <<>>]
  /\ UNCHANGED <<current_proc, next_pid, wstatus, as_live, ks_live, released, fdVars, schedVars, otherVars>>

\* proc_exit, second part: vfs_close_for_pid(p->pid).
ProcExitClose ==
  /\ kpc = "exit_close"
  /\ fd_table' = vfs_close_for_pid(fd_table, proc_table[current_proc].pid)
  /\ kpc' = "exit_wake"
  /\ op' = [name |-> "exit_close", ret |-> 0, arg |-> <<>>]
  /\ UNCHANGED <<proc_table, current_proc, next_pid, cpu, wstatus, as_live,
                 ks_live, released, pipes, pipe_creator, schedVars, otherVars>>

\* proc_exit, third part: wake the parent if it waits for this child.
ProcExitWake ==
  /\ kpc = "exit_wake"
  /\ proc_table' =
       IF exit_wakes_parent(proc_table, current_proc)
       THEN [proc_table EXCEPT
               ![proc_get(proc_table, proc_table[current_proc].parent_pid)].state = "READY"]
       ELSE proc_table
  /\ kpc' = "exit_sched"
  /\ op' = [name |-> "exit_wake", ret |-> 0, arg |-> <<>>]
  /\ UNCHANGED <<current_proc, next_pid, cpu, wstatus, as_live, ks_live, released, fdVars, schedVars, otherVars>>

\* proc_exit, last part: proc_schedule; the zombie never runs again.
ProcExitSched ==
  /\ kpc = "exit_sched"
  /\ Schedule(proc_table)
  /\ op' = [name |-> "exit_sched", ret |-> 0, arg |-> <<>>]
  /\ UNCHANGED <<next_pid, cpu, wstatus, as_live, ks_live, released, fdVars, schedVars, otherVars>>

(***************************************************************************)
(* Handlers of descriptors and pipes.                                      *)
(***************************************************************************)
\* sys_open -> vfs_open: found tells whether the path resolves.  The descriptor
\* is owned by the calling process.
SysOpen(found) ==
  /\ kpc = "user"
  /\ LET fd == vfs_free_fd(fd_table)
     IN IF found /\ fd # NULL
        THEN /\ fd_table' = [fd_table EXCEPT ![fd] =
                               [in_use |-> TRUE, owner_pid |-> proc_table[current_proc].pid]]
             /\ cpu' = [syscall_frame(SYS_OPEN) EXCEPT !.rax = fd]
             /\ op' = [name |-> "open", ret |-> fd, arg |-> <<>>]
        ELSE /\ cpu' = [syscall_frame(SYS_OPEN) EXCEPT !.rax = -ENOENT]
             /\ op' = [name |-> "open", ret |-> -ENOENT, arg |-> <<>>]
             /\ UNCHANGED fd_table
  /\ UNCHANGED <<proc_table, current_proc, next_pid, kpc, wstatus, as_live, ks_live,
                 released, pipes, pipe_creator, schedVars, otherVars>>

\* vfs_open_fat32 called for the current process: a path that is not on a
\* FAT32 mount goes to vfs_open; on a FAT32 mount the descriptor is searched
\* and, when fat32_open finds the file, taken without an owner being set.
VfsOpenFat32(on_fat32, found) ==
  /\ kpc = "user"
  /\ LET fd == IF on_fat32 THEN fat32_free_fd(fd_table) ELSE vfs_free_fd(fd_table)
     IN IF found /\ fd # NULL
        THEN /\ fd_table' = [fd_table EXCEPT ![fd] =
                               [in_use |-> TRUE,
                                owner_pid |-> IF on_fat32 THEN @.owner_pid
                                              ELSE proc_table[current_proc].pid]]
             /\ op' = [name |-> "vfs_open_fat32", ret |-> fd, arg |-> <<>>]
        ELSE /\ op' = [name |-> "vfs_open_fat32", ret |-> -1, arg |-> <<>>]
             /\ UNCHANGED fd_table
  /\ UNCHANGED <<proc_table, current_proc, next_pid, kpc, cpu, wstatus, as_live, ks_live,
                 released, pipes, pipe_creator, schedVars, otherVars>>

\* sys_close: descriptors 0..2 are left alone; a pipe end is shut if fd names
\* one; otherwise vfs_close.
SysClose(fd) ==
  /\ kpc = "user"
  /\ LET is_pipe == find_pipe_by_fd(pipes, fd).pipe # NULL
         bad     == fd >= VFS_MAX_FD \/ ~fd_table[fd].in_use
         ret     == IF fd <= 2 \/ is_pipe THEN 0 ELSE IF bad THEN -EBADF ELSE 0
     IN /\ pipes' = IF fd <= 2 THEN pipes ELSE pipe_close(pipes, fd)
        /\ fd_table' = IF fd <= 2 \/ is_pipe THEN fd_table ELSE vfs_close(fd_table, fd)
        /\ cpu' = [syscall_frame(SYS_CLOSE) EXCEPT !.rax = ret]
        /\ op' = [name |-> "close", ret |-> ret, arg |-> <<fd>>]
  /\ UNCHANGED <<proc_table, current_proc, next_pid, kpc, wstatus, as_live, ks_live,
                 released, pipe_creator, schedVars, otherVars>>

\* sys_pipe: take a free pipe and the two lowest free numbers of the pipe range.
SysPipeBody ==
  /\ kpc = "user"
  /\ LET p    == alloc_pipe(pipes)
         free == pipe_free_fds(pipes)
     IN IF p = NULL
        THEN /\ cpu' = [syscall_frame(SYS_PIPE) EXCEPT !.rax = -ENOMEM]
             /\ op' = [name |-> "pipe", ret |-> -ENOMEM, arg |-> <<>>]
             /\ UNCHANGED <<pipes, pipe_creator, pipe_buf, pipe_in, pipe_out>>
        ELSE LET rfd == Min(free)
                 wfd == Min(free \ {rfd})
             IN /\ pipes' = [pipes EXCEPT ![p] = [read_open |-> TRUE, write_open |-> TRUE,
                                                  read_fd |-> rfd, write_fd |-> wfd]]
                /\ pipe_creator' = [pipe_creator EXCEPT ![p] = proc_table[current_proc].pid]
                /\ pipe_buf' = [pipe_buf EXCEPT ![p].read_pos = 0, ![p].write_pos = 0,
                                                ![p].count = 0]
                /\ pipe_in' = [pipe_in EXCEPT ![p] = <<>>]
                /\ pipe_out' = [pipe_out EXCEPT ![p] = <<>>]
                /\ cpu' = [syscall_frame(SYS_PIPE) EXCEPT !.rax = 0]
                /\ op' = [name |-> "pipe", ret |-> 0, arg |-> <<rfd, wfd>>]
  /\ UNCHANGED <<proc_table, current_proc, next_pid, kpc, wstatus, as_live, ks_live,
                 released, fd_table, schedVars, pipe_wait, devCore>>

SysPipe == SysPipeBody /\ UNCHANGED userVars

\* sys_read on a descriptor of the pipe range: pipe_read, and vfs_read (which
\* refuses a descriptor beyond fd_table) when pipe_read finds no read end.
SysReadBody(fd, count) ==
  /\ kpc = "user"
  /\ LET r == pipe_read(pipes, pipe_buf, fd)
     IN IF r.kind = "wait"
        THEN /\ kpc' = "pipe_read_wait"
             /\ pipe_wait' = [pipe |-> r.pipe, count |-> count, src |-> <<>>]
             /\ op' = [name |-> "read_wait", ret |-> 0, arg |-> <<fd, count>>]
             /\ UNCHANGED <<cpu, pipe_buf, pipe_out>>
        ELSE IF r.kind = "copy"
        THEN LET c == pipe_read_tail(pipe_buf[r.pipe], count)
             IN /\ pipe_buf' = [pipe_buf EXCEPT ![r.pipe] = c.d]
                /\ pipe_out' = [pipe_out EXCEPT ![r.pipe] = @ \o c.out]
                /\ cpu' = [syscall_frame(SYS_READ) EXCEPT !.rax = c.ret]
                /\ op' = [name |-> "read", ret |-> c.ret, arg |-> <<fd, count>>]
                /\ UNCHANGED <<kpc, pipe_wait>>
        ELSE LET ret == IF r.ret = -ENOENT THEN -1 ELSE r.ret
             IN /\ cpu' = [syscall_frame(SYS_READ) EXCEPT !.rax = ret]
                /\ op' = [name |-> "read", ret |-> ret, arg |-> <<fd, count>>]
                /\ UNCHANGED <<kpc, pipe_buf, pipe_out, pipe_wait>>
  /\ UNCHANGED <<proc_table, current_proc, next_pid, wstatus, as_live, ks_live,
                 released, fdVars, schedVars, pipe_in, devCore>>

SysRead(fd, count) == SysReadBody(fd, count) /\ UNCHANGED userVars

\* One test of pipe_read's wait loop, "while(p->count == 0 && p->write_open)
\* pause": the caller stays on the CPU, in the loop, until the test fails,
\* then copies and returns.
PipeReadWait ==
  /\ kpc = "pipe_read_wait"
  /\ LET i == pipe_wait.pipe
     IN IF pipe_buf[i].count = 0 /\ pipes[i].write_open
        THEN UNCHANGED <<kpc, cpu, op, pipeVars>>
        ELSE LET c == pipe_read_tail(pipe_buf[i], pipe_wait.count)
             IN /\ pipe_buf' = [pipe_buf EXCEPT ![i] = c.d]
                /\ pipe_out' = [pipe_out EXCEPT ![i] = @ \o c.out]
                /\ cpu' = [syscall_frame(SYS_READ) EXCEPT !.rax = c.ret]
                /\ op' = [name |-> "read", ret |-> c.ret,
                          arg |-> <<pipes[i].read_fd, pipe_wait.count>>]
                /\ kpc' = "user"
                /\ pipe_wait' = NoPipeWait
                /\ UNCHANGED pipe_in
  /\ UNCHANGED <<proc_table, current_proc, next_pid, wstatus, as_live, ks_live,
                 released, fdVars, schedVars, devVars>>

\* sys_write of n bytes on a descriptor of the pipe range: pipe_write, and
\* vfs_write (which refuses the descriptor) when pipe_write finds no write end.
SysWrite(fd, n) ==
  /\ kpc = "user"
  /\ LET r   == pipe_write(pipes, pipe_buf, fd)
         src == IF r.pipe = NULL THEN <<>> ELSE WriteSrc(pipe_in[r.pipe], n)
     IN /\ r.pipe # NULL => Len(pipe_in[r.pipe]) + n <= MaxPipeBytes
        /\ IF r.kind = "wait"
           THEN /\ kpc' = "pipe_write_wait"
                /\ pipe_wait' = [pipe |-> r.pipe, count |-> n, src |-> src]
                /\ op' = [name |-> "write_wait", ret |-> 0, arg |-> <<fd, n>>]
                /\ UNCHANGED <<cpu, pipe_buf, pipe_in>>
           ELSE IF r.kind = "copy"
           THEN LET c == pipe_write_tail(pipe_buf[r.pipe], src)
                IN /\ pipe_buf' = [pipe_buf EXCEPT ![r.pipe] = c.d]
                   /\ pipe_in' = [pipe_in EXCEPT ![r.pipe] = @ \o SubSeq(src, 1, c.ret)]
                   /\ cpu' = [syscall_frame(SYS_WRITE) EXCEPT !.rax = c.ret]
                   /\ op' = [name |-> "write", ret |-> c.ret, arg |-> <<fd, n>>]
                   /\ UNCHANGED <<kpc, pipe_wait>>
           ELSE LET ret == IF r.ret = -ENOENT THEN -1 ELSE r.ret
                IN /\ cpu' = [syscall_frame(SYS_WRITE) EXCEPT !.rax = ret]
                   /\ op' = [name |-> "write", ret |-> ret, arg |-> <<fd, n>>]
                   /\ UNCHANGED <<kpc, pipe_buf, pipe_in, pipe_wait>>
  /\ UNCHANGED <<proc_table, current_proc, next_pid, wstatus, as_live, ks_live,
                 released, fdVars, schedVars, pipe_out, devVars>>

\* One test of pipe_write's wait loop, "while(p->count >= PIPE_BUF_SIZE &&
\* p->read_open) pause": the caller stays on the CPU, in the loop, until the
\* test fails, then copies what fits and returns.
PipeWriteWait ==
  /\ kpc = "pipe_write_wait"
  /\ LET i == pipe_wait.pipe
     IN IF pipe_buf[i].count >= PIPE_BUF_SIZE /\ pipes[i].read_open
        THEN UNCHANGED <<kpc, cpu, op, pipeVars>>
        ELSE LET c == pipe_write_tail(pipe_buf[i], pipe_wait.src)
             IN /\ pipe_buf' = [pipe_buf EXCEPT ![i] = c.d]
                /\ pipe_in' = [pipe_in EXCEPT ![i] = @ \o SubSeq(pipe_wait.src, 1, c.ret)]
                /\ cpu' = [syscall_frame(SYS_WRITE) EXCEPT !.rax = c.ret]
                /\ op' = [name |-> "write", ret |-> c.ret,
                          arg |-> <<pipes[i].write_fd, pipe_wait.count>>]
                /\ kpc' = "user"
                /\ pipe_wait' = NoPipeWait
                /\ UNCHANGED pipe_out
  /\ UNCHANGED <<proc_table, current_proc, next_pid, wstatus, as_live, ks_live,
                 released, fdVars, schedVars, devVars>>

(***************************************************************************)
(* Handlers of the scheduler, the timer and the ATA channel.               *)
(***************************************************************************)
\* task_create by the running task: a new READY task at the tail of the ring;
\* nothing changes when an allocation fails (ok = FALSE) .
TaskCreate(ok) ==
  /\ Executing
  /\ tpc[current_task] = "run"
  /\ \E t \in TaskIds :
       /\ tstate[t] = "NONE"
       /\ \A u \in TaskIds : tstate[u] = "NONE" => t <= u
       /\ IF ok
          THEN /\ tstate' = [tstate EXCEPT ![t] = "READY"]
               /\ ticks_remaining' = [ticks_remaining EXCEPT ![t] = DEFAULT_TIME_SLICE]
               /\ tpc' = [tpc EXCEPT ![t] = "new"]
               /\ task_list' = task_list_add(task_list, t)
               /\ op' = [name |-> "task_create", ret |-> t, arg |-> <<>>]
          ELSE /\ UNCHANGED <<tstate, ticks_remaining, tpc, task_list>>
               /\ op' = [name |-> "task_create", ret |-> 0, arg |-> <<>>]
  /\ UNCHANGED <<current_task, need_resched, intr, ataVars, awaiting, slices,
                 procVars, fdVars, otherVars>>

\* task_exit: the idle task cannot exit; any other becomes ZOMBIE, leaves the
\* ring, and the task find_next_ready returns is made RUNNING and switched to.
TaskExit ==
  /\ Executing
  /\ tpc[current_task] = "run"
  /\ IF current_task = idle_task
     THEN UNCHANGED <<taskVars>>
     ELSE LET ts1  == [tstate EXCEPT ![current_task] = "ZOMBIE"]
              next == find_next_ready(ts1, current_task, task_list)
          IN /\ tstate' = [ts1 EXCEPT ![next] = "RUNNING"]
             /\ task_list' = task_list_remove(task_list, current_task)
             /\ current_task' = next
             /\ tpc' = [tpc EXCEPT ![current_task] = "dead", ![next] = resume_pc(tpc[next])]
             /\ intr' = TRUE
             /\ UNCHANGED <<ticks_remaining, need_resched>>
  /\ op' = [name |-> "task_exit", ret |-> current_task, arg |-> <<>>]
  /\ UNCHANGED <<ataVars, awaiting, slices, procVars, fdVars, otherVars>>

\* sched_yield called by the running task (sys_sched_yield or task code).
SchedYield ==
  /\ Executing
  /\ tpc[current_task] = "run"
  /\ Switch(sched_yield(tstate, ticks_remaining, current_task, task_list),
            "in_yield", "run")
  /\ op' = [name |-> "sched_yield", ret |-> current_task', arg |-> <<>>]
  /\ UNCHANGED <<task_list, need_resched, ataVars, awaiting, slices, procVars, fdVars, otherVars>>

\* sched_check_resched: when need_resched is set, clear it and sched_yield.
sched_check_resched ==
  IF need_resched
  THEN /\ need_resched' = FALSE
       /\ Switch(sched_yield(tstate, ticks_remaining, current_task, task_list),
                 "in_yield", "run")
       /\ UNCHANGED task_list
  ELSE UNCHANGED taskVars

\* The running task reaches a safe point and calls sched_check_resched.
SchedCheckResched ==
  /\ Executing
  /\ tpc[current_task] = "run"
  /\ sched_check_resched
  /\ op' = [name |-> "sched_check_resched", ret |-> current_task', arg |-> <<>>]
  /\ UNCHANGED <<ataVars, awaiting, slices, procVars, fdVars, otherVars>>

\* pit_tick (the timer IRQ, taken when interrupts are enabled): count the tick
\* and call sched_tick.
PitTick ==
  /\ intr
  /\ LET r == sched_tick(tstate, ticks_remaining, current_task, task_list, need_resched)
     IN /\ tstate' = r.tstate
        /\ ticks_remaining' = r.ticks
        /\ current_task' = r.current
        /\ need_resched' = r.need
  /\ elapsed' = IF ch_waiter # NULL /\ elapsed < TIMEOUT_TICKS THEN elapsed + 1 ELSE elapsed
  /\ op' = [name |-> "pit_tick", ret |-> 0, arg |-> <<>>]
  /\ UNCHANGED <<task_list, intr, tpc, ch_state, ch_waiter, hw_busy, irq_line,
                 awaiting, slices, procVars, fdVars, otherVars>>

\* prepare_irq_wait and the command issue that follows it in dma_transfer:
\* interrupts off, channel PENDING, the caller recorded as waiter, the device
\* started.  The driver takes no lock and serves one command at a time, so a
\* task issues a command only on a channel that is idle with nobody waiting.
AtaPrepare ==
  /\ Executing
  /\ tpc[current_task] = "run"
  /\ ch_state = "IDLE"
  /\ ch_waiter = NULL
  /\ intr' = FALSE
  /\ ch_state' = prepare_irq_wait(current_task).state
  /\ ch_waiter' = prepare_irq_wait(current_task).waiter
  /\ hw_busy' = TRUE
  /\ elapsed' = 0
  /\ tpc' = [tpc EXCEPT ![current_task] = "wait_entry"]
  /\ op' = [name |-> "prepare_irq_wait", ret |-> current_task, arg |-> <<>>]
  /\ UNCHANGED <<task_list, tstate, ticks_remaining, current_task, need_resched,
                 irq_line, awaiting, slices, procVars, fdVars, otherVars>>

\* One pass of wait_irq's loop by the waiter: entered from dma_transfer
\* ("wait_entry", deadline just computed) or after sched_block returned
\* ("wait_irq", interrupts disabled again first).  While the channel is PENDING:
\* give up at the deadline, else sched_block (mark BLOCKED, sched_yield).
\* Once it is IDLE: detach and return.
WaitIrq ==
  /\ Executing
  /\ tpc[current_task] \in {"wait_entry", "wait_irq"}
  /\ IF ch_state = "PENDING"
     THEN IF elapsed >= TIMEOUT_TICKS
          THEN /\ ch_state' = "IDLE"
               /\ ch_waiter' = NULL
               /\ intr' = TRUE
               /\ tpc' = [tpc EXCEPT ![current_task] = "run"]
               /\ op' = [name |-> "wait_irq_timeout", ret |-> current_task, arg |-> <<>>]
               /\ UNCHANGED <<tstate, ticks_remaining, current_task, awaiting>>
          ELSE /\ Switch(sched_yield(sched_block(tstate, current_task), ticks_remaining,
                                     current_task, task_list),
                         "in_block", "wait_irq")
               /\ awaiting' = awaiting \cup {current_task}
               /\ op' = [name |-> "sched_block", ret |-> current_task', arg |-> <<current_task>>]
               /\ UNCHANGED <<ch_state, ch_waiter>>
     ELSE /\ ch_waiter' = NULL
          /\ intr' = TRUE
          /\ tpc' = [tpc EXCEPT ![current_task] = "run"]
          /\ op' = [name |-> "wait_irq_done", ret |-> current_task, arg |-> <<>>]
          /\ UNCHANGED <<ch_state, tstate, ticks_remaining, current_task, awaiting>>
  /\ UNCHANGED <<task_list, need_resched, hw_busy, irq_line, elapsed, slices,
                 procVars, fdVars, otherVars>>

\* The device finishes the command and raises its IRQ.
DeviceComplete ==
  /\ hw_busy
  /\ hw_busy' = FALSE
  /\ irq_line' = TRUE
  /\ op' = [name |-> "device", ret |-> 0, arg |-> <<>>]
  /\ UNCHANGED <<taskVars, ch_state, ch_waiter, elapsed, awaiting, slices, procVars, fdVars, otherVars>>

\* ata_irq, taken once interrupts are enabled: the channel goes IDLE and the
\* waiter, if any, is unblocked.  The handler does not switch tasks.
AtaIrq ==
  /\ intr
  /\ irq_line
  /\ irq_line' = FALSE
  /\ ch_state' = "IDLE"
  /\ tstate' = ata_irq_wake(tstate, ch_waiter)
  /\ awaiting' = awaiting \ {ch_waiter}
  /\ op' = [name |-> "ata_irq", ret |-> ch_waiter, arg |-> <<>>]
  /\ UNCHANGED <<task_list, ticks_remaining, current_task, need_resched, intr, tpc,
                 ch_waiter, hw_busy, elapsed, slices, procVars, fdVars, otherVars>>


(***************************************************************************)
(* ATA transfers: dma_transfer, pio_read and pio_write with their retries. *)
(* One attempt is one pass of the retry loop.  What the device does with   *)
(* the command is the input of an attempt:                                 *)
(*   "done"     IRQ, status clean                                          *)
(*   "error"    IRQ, ATA_SR_ERR or ATA_SR_DF set                           *)
(*   "silent"   no IRQ before the deadline                                 *)
(*   "bmi_err"  IRQ, status clean, BMI_STATUS_ERR set (DMA)                *)
(*   "no_drq"   DRQ not set after the write command (PIO write)            *)
(* Results are "OK" (0), "EIO" (-EIO) and "ETIMEDOUT" (-ETIMEDOUT).        *)
(***************************************************************************)
DmaOutcomes == {"done", "error", "silent", "bmi_err"}
PioReadOutcomes == {"done", "error", "silent"}
PioWriteOutcomes == {"done", "error", "silent", "no_drq"}

\* What wait_irq returns to a caller that it does return to.
wait_irq_ret(o) ==
  CASE o = "silent" -> "ETIMEDOUT"
    [] o = "error" -> "EIO"
    [] OTHER -> "OK"

\* ata_read / ata_write: DMA when the drive and the channel can, else PIO.  The
\* arguments are valid (drive present, count > 0, range on the disk) and a DMA
\* transfer fits the bounce page.
AtaStart(write, dma, count) ==
  /\ xfer.path = "none"
  /\ xfer' = [path |-> IF dma THEN "dma" ELSE IF write THEN "pio_write" ELSE "pio_read",
              count |-> count, s |-> 0, retry |-> 0,
              r |-> IF dma THEN "OK" ELSE "EIO",
              hist |-> <<>>, ret |-> "OK"]
  /\ UNCHANGED <<procVars, fdVars, op, schedVars, pipeVars, memVars, svcVars>>

\* One pass of the loop of dma_transfer: success returns 0 at once; after the
\* last pass the function returns -EIO.
DmaAttempt(o) ==
  /\ xfer.path = "dma"
  /\ xfer.retry < MAX_RETRIES
  /\ LET r == wait_irq_ret(o)
         ok == r = "OK" /\ o # "bmi_err"
         h == Append(xfer.hist, o)
     IN  xfer' = IF ok
                   THEN [xfer EXCEPT !.path = "ret", !.r = r, !.hist = h, !.ret = "OK"]
                   ELSE IF xfer.retry + 1 < MAX_RETRIES
                          THEN [xfer EXCEPT !.retry = @ + 1, !.r = r, !.hist = h]
                          ELSE [xfer EXCEPT !.path = "ret", !.retry = @ + 1, !.r = r,
                                            !.hist = h, !.ret = "EIO"]
  /\ UNCHANGED <<procVars, fdVars, op, schedVars, pipeVars, memVars, svcVars>>

\* After the retry loop of pio_read / pio_write for sector s: a negative r is
\* returned, otherwise the next sector starts with r = -EIO and retry = 0, and
\* after the last sector the function returns 0.
pio_after_loop(x, r, h) ==
  IF r # "OK"
    THEN [x EXCEPT !.path = "ret", !.r = r, !.hist = h, !.ret = r]
    ELSE IF x.s + 1 < x.count
           THEN [x EXCEPT !.s = @ + 1, !.retry = 0, !.r = "EIO", !.hist = <<>>]
           ELSE [x EXCEPT !.path = "ret", !.r = r, !.hist = h, !.ret = "OK"]

\* One pass of a PIO retry loop that ends with r: the loop goes on while
\* retry < MAX_RETRIES and r < 0.
pio_pass(x, r, h) ==
  IF x.retry + 1 < MAX_RETRIES /\ r # "OK"
    THEN [x EXCEPT !.retry = @ + 1, !.r = r, !.hist = h]
    ELSE pio_after_loop([x EXCEPT !.retry = @ + 1], r, h)

PioReadAttempt(o) ==
  /\ xfer.path = "pio_read"
  /\ xfer.retry < MAX_RETRIES /\ xfer.r # "OK"
  /\ xfer' = pio_pass(xfer, wait_irq_ret(o), Append(xfer.hist, o))
  /\ UNCHANGED <<procVars, fdVars, op, schedVars, pipeVars, memVars, svcVars>>

\* pio_write: without DRQ the pass ends with r = -EIO before any wait.
PioWriteAttempt(o) ==
  /\ xfer.path = "pio_write"
  /\ xfer.retry < MAX_RETRIES /\ xfer.r # "OK"
  /\ xfer' = pio_pass(xfer, IF o = "no_drq" THEN "EIO" ELSE wait_irq_ret(o),
                      Append(xfer.hist, o))
  /\ UNCHANGED <<procVars, fdVars, op, schedVars, pipeVars, memVars, svcVars>>

\* The caller has the result; the driver is ready for the next call.
AtaReturn ==
  /\ xfer.path = "ret"
  /\ xfer' = NoXfer
  /\ UNCHANGED <<procVars, fdVars, op, schedVars, pipeVars, memVars, svcVars>>

(***************************************************************************)
(* Calls of the page allocator.                                            *)
(***************************************************************************)
Pmm == [bitmap |-> bitmap, free_pages |-> free_pages]

\* A caller that gets 0 back holds nothing.
PmmAlloc ==
  /\ Cardinality(pmm_handed) < MaxHeld
  /\ LET a == pmm_alloc(Pmm)
     IN  /\ bitmap' = a.pm.bitmap
         /\ free_pages' = a.pm.free_pages
         /\ pmm_handed' = IF a.ret = 0 THEN pmm_handed
                          ELSE pmm_handed \cup {a.ret \div PAGE_SIZE}
         /\ op' = [name |-> "pmm_alloc", ret |-> a.ret, arg |-> <<>>]
  /\ UNCHANGED <<pmm_stray, procVars, fdVars, schedVars, pipeVars, xferVars, svcVars, vmmVars>>

PmmAllocPages(count) ==
  /\ Cardinality(pmm_handed) < MaxHeld
  /\ LET a == pmm_alloc_pages(Pmm, count)
     IN  /\ bitmap' = a.pm.bitmap
         /\ free_pages' = a.pm.free_pages
         /\ pmm_handed' = IF a.ret = 0 THEN pmm_handed
                          ELSE pmm_handed \cup PagesOf(a.ret, count)
         /\ op' = [name |-> "pmm_alloc_pages", ret |-> a.ret, arg |-> <<count>>]
  /\ UNCHANGED <<pmm_stray, procVars, fdVars, schedVars, pipeVars, xferVars, svcVars, vmmVars>>

PmmFree(page) ==
  /\ LET f == pmm_free(Pmm, page * PAGE_SIZE)
     IN  /\ bitmap' = f.bitmap
         /\ free_pages' = f.free_pages
  /\ pmm_handed' = pmm_handed \ {page}
  /\ pmm_stray' = (pmm_stray \/ page \notin pmm_handed)
  /\ op' = [name |-> "pmm_free", ret |-> 0, arg |-> <<page>>]
  /\ UNCHANGED <<procVars, fdVars, schedVars, pipeVars, xferVars, svcVars, vmmVars>>

PmmFreePages(page, count) ==
  /\ PagesOf(page * PAGE_SIZE, count) \subseteq PageIds
  /\ LET f == pmm_free_pages(Pmm, page * PAGE_SIZE, count)
     IN  /\ bitmap' = f.bitmap
         /\ free_pages' = f.free_pages
  /\ pmm_handed' = pmm_handed \ PagesOf(page * PAGE_SIZE, count)
  /\ pmm_stray' = (pmm_stray \/ ~(PagesOf(page * PAGE_SIZE, count) \subseteq pmm_handed))
  /\ op' = [name |-> "pmm_free_pages", ret |-> 0, arg |-> <<page, count>>]
  /\ UNCHANGED <<procVars, fdVars, schedVars, pipeVars, xferVars, svcVars, vmmVars>>

(***************************************************************************)
(* Address spaces as the process code uses them.                           *)
(***************************************************************************)
Mem == [tables |-> tables, data |-> data, pm |-> [bitmap |-> bitmap, free_pages |-> free_pages]]

\* The contents a program finds in a page the loader has filled, and the
\* pattern a program of address space as writes.
LoadedData == 1
Pattern(as) == 2 + as

\* The memory becomes m.
SetMem(m) ==
  /\ tables' = m.tables
  /\ data' = m.data
  /\ bitmap' = m.pm.bitmap
  /\ free_pages' = m.pm.free_pages
  /\ pmm_handed' = Held(m.pm.bitmap)

\* proc_create: a new address space.
AsCreate ==
  /\ Cardinality(spaces) < MaxSpaces
  /\ spaces_made < MaxSpacesMade
  /\ \E c \in {vmm_create_address_space(Mem)} :
         /\ SetMem(c.m)
         /\ spaces' = IF c.ret = 0 THEN spaces ELSE spaces \cup {c.ret \div PAGE_SIZE}
         /\ spaces_made' = spaces_made + 1
         /\ op' = [name |-> "vmm_create_address_space", ret |-> c.ret, arg |-> <<>>]
  /\ UNCHANGED clone_src
  /\ UNCHANGED <<pmm_stray, procVars, fdVars, schedVars, pipeVars, xferVars, svcVars>>

\* A page of a program is set up: a frame is allocated, filled and mapped at a
\* user page that has no mapping yet.
AsMap(as, virt) ==
  /\ as \in spaces
  /\ ~LeafEntry(tables, as, virt).present
  /\ LET a == pmm_alloc(Mem.pm)
         page == a.ret \div PAGE_SIZE
     IN  /\ \E m \in {IF a.ret = 0
                            THEN [Mem EXCEPT !.pm = a.pm]
                            ELSE vmm_map_in([Mem EXCEPT !.pm = a.pm, !.data[page] = LoadedData],
                                            as, virt, a.ret, TRUE)} : SetMem(m)
         /\ op' = [name |-> "vmm_map_in", ret |-> a.ret, arg |-> <<as, virt>>]
  /\ UNCHANGED <<spaces, spaces_made, clone_src, pmm_stray, procVars, fdVars, schedVars, pipeVars, xferVars, svcVars>>

\* A program running in address space as writes its pattern to a mapped page.
UserWrite(as, virt) ==
  /\ as \in spaces
  /\ LeafEntry(tables, as, virt).present
  /\ data' = [data EXCEPT ![LeafEntry(tables, as, virt).frame] = Pattern(as)]
  /\ op' = [name |-> "user_write", ret |-> 0, arg |-> <<as, virt>>]
  /\ UNCHANGED <<tables, spaces, spaces_made, clone_src, pmmVars, procVars, fdVars, schedVars, pipeVars, xferVars, svcVars>>

\* proc_fork: the address space of the parent is cloned.
AsClone(src) ==
  /\ src \in spaces
  /\ Cardinality(spaces) < MaxSpaces
  /\ spaces_made < MaxSpacesMade
  /\ \E c \in {vmm_clone_address_space(Mem, src)} :
         /\ SetMem(c.m)
         /\ spaces' = IF c.ret = 0 THEN spaces ELSE spaces \cup {c.ret \div PAGE_SIZE}
         /\ spaces_made' = spaces_made + 1
         /\ clone_src' = IF c.ret = 0 THEN clone_src
                         ELSE [clone_src EXCEPT ![c.ret \div PAGE_SIZE] = src]
         /\ op' = [name |-> "vmm_clone_address_space", ret |-> c.ret, arg |-> <<src>>]
  /\ UNCHANGED <<pmm_stray, procVars, fdVars, schedVars, pipeVars, xferVars, svcVars>>

\* A process is reaped: its address space is destroyed.
AsDestroy(as) ==
  /\ as \in spaces
  /\ \E m \in {vmm_destroy_user_mappings(Mem, as)} : SetMem(m)
  /\ spaces' = spaces \ {as}
  /\ clone_src' = [f \in FrameIds |-> IF f = as \/ clone_src[f] = as THEN NULL ELSE clone_src[f]]
  /\ UNCHANGED spaces_made
  /\ op' = [name |-> "vmm_destroy_user_mappings", ret |-> 0, arg |-> <<as>>]
  /\ UNCHANGED <<pmm_stray, procVars, fdVars, schedVars, pipeVars, xferVars, svcVars>>

\* vmm_map_in called with any frame and flags on an address space that exists.
VmmMapIn(root, virt, phys, user) ==
  /\ root \in spaces
  /\ \E m \in {vmm_map_in(Mem, root, virt, phys, user)} : SetMem(m)
  /\ op' = [name |-> "vmm_map_in_any", ret |-> phys, arg |-> <<root, virt>>]
  /\ UNCHANGED <<spaces, spaces_made, clone_src, pmm_stray, procVars, fdVars, schedVars, pipeVars, xferVars, svcVars>>

\* vmm_unmap while cr3 is the current address space.
VmmUnmap(cr3, virt) ==
  /\ cr3 \in spaces
  /\ \E m \in {vmm_unmap(Mem, cr3, virt)} : SetMem(m)
  /\ op' = [name |-> "vmm_unmap", ret |-> 0, arg |-> <<cr3, virt>>]
  /\ UNCHANGED <<spaces, spaces_made, clone_src, pmm_stray, procVars, fdVars, schedVars, pipeVars, xferVars, svcVars>>

\* A system call that returns -EFAULT after a check of a pointer argument.
SysFault(num, name, args) ==
  /\ kpc = "user"
  /\ cpu' = [syscall_frame(num) EXCEPT !.rax = -EFAULT]
  /\ op' = [name |-> name, ret |-> -EFAULT, arg |-> args]
  /\ uaccess' = NoAccess
  /\ UNCHANGED <<proc_table, current_proc, next_pid, kpc, wstatus, as_live, ks_live,
                 released, fdVars, schedVars, pipeVars, devCore, ustatus>>

\* sys_read with its buffer: the NULL and range checks, the return for a count
\* of 0, then the read into buf.
SysReadAt(fd, buf, count) ==
  IF buf = 0 \/ ~vmm_is_user_range(buf, count)
    THEN SysFault(SYS_READ, "read", <<fd, count>>)
  ELSE IF count = 0
    THEN /\ kpc = "user"
         /\ cpu' = [syscall_frame(SYS_READ) EXCEPT !.rax = 0]
         /\ op' = [name |-> "read", ret |-> 0, arg |-> <<fd, count>>]
         /\ uaccess' = NoAccess
         /\ UNCHANGED <<proc_table, current_proc, next_pid, kpc, wstatus, as_live,
                        ks_live, released, fdVars, schedVars, pipeVars, devCore, ustatus>>
  ELSE /\ SysReadBody(fd, count)
       /\ uaccess' = IF op'.ret < 0 THEN NoAccess ELSE [addr |-> buf, len |-> count]
       /\ UNCHANGED ustatus

\* sys_pipe with the array it fills: the NULL check, then the pipe and the two
\* stores fds[0] and fds[1] (two ints).
SysPipeAt(pipefd) ==
  IF pipefd = 0
    THEN SysFault(SYS_PIPE, "pipe", <<>>)
  ELSE /\ SysPipeBody
       /\ uaccess' = IF op'.ret = 0 THEN [addr |-> pipefd, len |-> 8] ELSE NoAccess
       /\ UNCHANGED ustatus

\* sys_wait4 with its status pointer, which goes to proc_waitpid as it is;
\* proc_waitpid stores an i32 through it when it is not NULL and a child is
\* reaped, at once or after the caller was blocked.
SysWait4At(pid, wstatus_ptr, options) ==
  /\ SysWait4Body(pid, options, wstatus_ptr # 0)
  /\ uaccess' = IF op'.name = "wait4" /\ op'.ret > 0 /\ wstatus_ptr # 0
                  THEN [addr |-> wstatus_ptr, len |-> 4]
                  ELSE NoAccess
  /\ ustatus' = IF op'.name = "wait4_block"
                  THEN [ustatus EXCEPT ![current_proc] = wstatus_ptr]
                  ELSE ustatus

\* The rest of a blocked proc_waitpid, with the status pointer of the call.
WaitResumeAt ==
  /\ WaitResumeBody
  /\ uaccess' = IF op'.name = "wait4_resume" /\ op'.ret > 0 /\ ustatus[current_proc] # 0
                  THEN [addr |-> ustatus[current_proc], len |-> 4]
                  ELSE NoAccess
  /\ ustatus' = [ustatus EXCEPT ![current_proc] = 0]

\* kmalloc as the kernel calls it.
Kmalloc(size) ==
  /\ ~panicked
  /\ Cardinality(heap_live) < MaxLive
  /\ \E r \in {kmalloc(Heap, size)} :
       /\ SetHeap(r.h)
       /\ heap_live' = IF r.ret = NULL THEN heap_live
                       ELSE heap_live \cup {[ptr |-> r.ret, size |-> size]}
       /\ op' = [name |-> "kmalloc", ret |-> r.ret, arg |-> <<size>>]
  /\ UNCHANGED <<panicked, procVars, fdVars, schedVars, pipeVars, xferVars, memVars,
                 userVars, fsVars>>

\* kfree of NULL or of the payload of a block of the list, allocated or free.
Kfree(ptr) ==
  /\ ~panicked
  /\ ptr = NULL \/ BlockAt(heap_blocks, ptr) # 0
  /\ \E r \in {kfree(Heap, ptr)} :
       /\ SetHeap(r.h)
       /\ heap_live' = IF r.ret = "kfree" THEN {a \in heap_live : a.ptr # ptr}
                       ELSE heap_live
       /\ op' = [name |-> r.ret, ret |-> 0, arg |-> <<ptr>>]
  /\ UNCHANGED <<panicked, procVars, fdVars, schedVars, pipeVars, xferVars, memVars,
                 userVars, fsVars>>

\* A write past the end of an allocation that destroys the magic of the
\* header behind it.
HeapOverrun(i) ==
  /\ ~panicked
  /\ i \in 2..Len(heap_blocks)
  /\ ~heap_blocks[i - 1].free
  /\ ~heap_blocks[i].free
  /\ heap_blocks[i].magic = HEAP_BLOCK_MAGIC
  /\ heap_blocks' = [heap_blocks EXCEPT ![i].magic = "00000000"]
  /\ op' = [name |-> "overrun", ret |-> 0, arg |-> <<heap_blocks[i].addr + HEAP_HEADER_SIZE>>]
  /\ UNCHANGED <<heap_size, heap_used, heap_next_va, heap_live, panicked,
                 procVars, fdVars, schedVars, pipeVars, xferVars, memVars, userVars, fsVars>>

\* kfree of an address behind the mapped heap: the read of the header faults
\* and exception_handler halts the CPU.
KfreeUnmapped ==
  /\ ~panicked
  /\ panicked' = TRUE
  /\ op' = [name |-> "kfree_fault", ret |-> 0, arg |-> <<heap_next_va + HEAP_HEADER_SIZE>>]
  /\ UNCHANGED <<heap_blocks, heap_size, heap_used, heap_next_va, heap_live,
                 procVars, fdVars, schedVars, pipeVars, xferVars, memVars, userVars, fsVars>>

\* sched_check_resched at the end of a slice, with the slices counted.
SliceCheckResched ==
  /\ Executing
  /\ tpc[current_task] = "run"
  /\ need_resched
  /\ slices[current_task] < MaxSlices
  /\ sched_check_resched
  /\ slices' = [slices EXCEPT ![current_task'] = @ + 1]
  /\ op' = [name |-> "sched_check_resched", ret |-> current_task', arg |-> <<>>]
  /\ UNCHANGED <<ataVars, awaiting, procVars, fdVars, otherVars>>

\* The bytes a caller writes: len bytes, none of them zero.
BytePattern(len, seed) == [i \in 1..len |-> 1 + ((i + 3 * seed) % 251)]

\* The count of the calls that gave blocks or inodes back, after one more
\* call returned ret.
MaxReleases == 2
Released(n, ret) == IF ret = 0 /\ n < MaxReleases THEN n + 1 ELSE n

\* No handle is open on the path.
Unopened(p) == \A f \in FileIds : e2_files[f].in_use => e2_path[f] # p
\* No handle is open on the path or below it.
UnopenedBelow(p) ==
  \A f \in FileIds : e2_files[f].in_use /\ e2_path[f] # 0 =>
     SubSeq(Paths[e2_path[f]], 1, Len(Paths[p])) # Paths[p]

ext2Rest == <<procVars, fdVars, schedVars, pipeVars, xferVars, memVars, heapVars, userVars,
              vfsVars>>

\* ext2_create on a path no handle is open on.
Ext2Create(p) ==
  /\ Unopened(p)
  /\ \E r \in {ext2_create(Fs, Paths[p])} :
       /\ SetFs(r.s)
       /\ e2_path' = IF r.ret = NULL THEN e2_path ELSE [e2_path EXCEPT ![r.ret] = p]
       /\ op' = [name |-> "ext2_create", ret |-> r.ret, arg |-> <<p>>]
       /\ e2_ghost' = [e2_ghost EXCEPT
                         !.data = <<>>, !.mark = NoMark,
                         !.gone = IF r.ret # NULL THEN @ \ {p} ELSE @,
                         !.stage[p] = IF resolve_path(Fs, Paths[p]).ret < 0 /\ r.ret # NULL
                                        THEN 1 ELSE 0]
  /\ UNCHANGED ext2Rest

\* ext2_open on a path no handle is open on.
Ext2Open(p) ==
  /\ Unopened(p)
  /\ \E r \in {ext2_open(Fs, Paths[p])} :
       /\ SetFs(r.s)
       /\ e2_path' = IF r.ret = NULL THEN e2_path ELSE [e2_path EXCEPT ![r.ret] = p]
       /\ op' = [name |-> "ext2_open", ret |-> r.ret, arg |-> <<p>>]
       /\ e2_ghost' = [e2_ghost EXCEPT
                         !.data = <<>>,
                         !.stage[p] = IF @ = 4 /\ r.ret # NULL THEN 5 ELSE 0]
  /\ UNCHANGED ext2Rest

Ext2Close(file) ==
  /\ e2_files[file].in_use
  /\ SetFs(ext2_close(Fs, file))
  /\ e2_path' = [e2_path EXCEPT ![file] = 0]
  /\ op' = [name |-> "ext2_close", ret |-> 0, arg |-> <<file>>]
  /\ e2_ghost' = [e2_ghost EXCEPT
                    !.data = <<>>,
                    !.mark = IF @.file = file THEN NoMark ELSE @,
                    !.stage = IF e2_path[file] = 0 THEN @
                              ELSE [@ EXCEPT ![e2_path[file]] = IF @ = 2 THEN 3 ELSE 0]]
  /\ UNCHANGED ext2Rest

Ext2Read(file, count) ==
  /\ e2_files[file].in_use
  /\ \E r \in {ext2_read(Fs, file, count)} :
       /\ SetFs(r.s)
       /\ e2_ghost' =
            [e2_ghost EXCEPT
               !.data = r.data,
               !.stage = IF e2_path[file] = 0 THEN @
                         ELSE [@ EXCEPT ![e2_path[file]] =
                                 IF /\ @ = 5
                                    /\ e2_files[file].position = 0
                                    /\ count >= Len(e2_ghost.want[e2_path[file]])
                                   THEN 6 ELSE 0]]
       /\ op' = [name |-> "ext2_read", ret |-> r.ret, arg |-> <<file, count>>]
  /\ UNCHANGED <<e2_path, ext2Rest>>

\* A file of 13 blocks: 12 behind the direct pointers, one behind the
\* single-indirect block.
Blocks13 == (EXT2_NDIR_BLOCKS + 1) * block_size

\* The blocks the bitmaps show as free, and the counter of the volume.
RECURSIVE UsedBits(_, _)
UsedBits(bbm, g) == IF g >= groups_count THEN 0 ELSE Cardinality(bbm[g]) + UsedBits(bbm, g + 1)
FreeBits(disk) == groups_count * blocks_per_group - UsedBits(disk.bbm, 0)
FreeCount == e2_vol.sb.s_free_blocks_count

Ext2Write(file, len, seed) ==
  /\ e2_files[file].in_use
  /\ \E r \in {ext2_write(Fs, file, BytePattern(len, seed))} :
       LET f == e2_files[file]
           p == e2_path[file]
           fresh == f.position = 0 /\ f.inode.i_size = 0 /\ f.inode.i_blocks = 0
       IN  /\ SetFs(r.s)
           /\ e2_ghost' =
                [e2_ghost EXCEPT
                   !.data = <<>>,
                   !.want = IF r.ret > 0 /\ p # 0
                              THEN [@ EXCEPT ![p] = Overlay(@, f.position,
                                                            SubSeq(BytePattern(len, seed), 1, r.ret))]
                              ELSE @,
                   !.stage = IF p = 0 THEN @
                             ELSE [@ EXCEPT ![p] = IF @ = 1 /\ fresh /\ r.ret = len
                                                     THEN 2 ELSE 0],
                   !.mark = IF fresh /\ len = Blocks13 /\ r.ret = len
                              THEN [file |-> file, free |-> FreeCount]
                              ELSE NoMark]
           /\ op' = [name |-> "ext2_write", ret |-> r.ret, arg |-> <<file, len, seed>>]
  /\ UNCHANGED <<e2_path, ext2Rest>>

Ext2Truncate(file) ==
  /\ e2_files[file].in_use
  /\ \E r \in {ext2_truncate(Fs, file)} :
       /\ SetFs(r.s)
       /\ e2_ghost' = [e2_ghost EXCEPT
                         !.data = <<>>,
                         !.want = IF r.ret = 0 /\ e2_path[file] # 0
                                    THEN [@ EXCEPT ![e2_path[file]] = <<>>] ELSE @,
                         !.stage = IF e2_path[file] = 0 THEN @
                                   ELSE [@ EXCEPT ![e2_path[file]] = 0],
                         !.released = Released(@, r.ret),
                         !.mark = IF @.file = file THEN @ ELSE NoMark]
       /\ op' = [name |-> "ext2_truncate", ret |-> r.ret, arg |-> <<file>>]
  /\ UNCHANGED <<e2_path, ext2Rest>>

Ext2Mkdir(p) ==
  /\ \E r \in {ext2_mkdir(Fs, Paths[p])} :
       /\ SetFs(r.s)
       /\ op' = [name |-> "ext2_mkdir", ret |-> r.ret, arg |-> <<p>>]
       /\ e2_ghost' = [e2_ghost EXCEPT !.data = <<>>, !.mark = NoMark, !.stage[p] = 0,
                                       !.gone = IF r.ret = 0 THEN @ \ {p} ELSE @]
  /\ UNCHANGED <<e2_path, ext2Rest>>

\* ext2_unlink of a path; the call does not look at the open handles.
Ext2UnlinkCall(p) ==
  /\ \E r \in {ext2_unlink(Fs, Paths[p])} :
       /\ SetFs(r.s)
       /\ e2_ghost' = [e2_ghost EXCEPT
                         !.data = <<>>,
                         !.want = IF r.ret = 0 THEN [@ EXCEPT ![p] = <<>>] ELSE @,
                         !.stage[p] = 0,
                         !.gone = IF r.ret = 0 THEN @ \cup {p} ELSE @,
                         !.released = Released(@, r.ret),
                         !.mark = NoMark]
       /\ op' = [name |-> "ext2_unlink", ret |-> r.ret, arg |-> <<p>>]
  /\ UNCHANGED <<e2_path, ext2Rest>>

\* ext2_unlink of a path no handle is open on, and of a path a handle is
\* open on.
Ext2Unlink(p) == Unopened(p) /\ Ext2UnlinkCall(p)
Ext2UnlinkOpen(p) == ~Unopened(p) /\ Ext2UnlinkCall(p)

\* ext2_rmdir of a path no handle is open on or below.
Ext2Rmdir(p) ==
  /\ UnopenedBelow(p)
  /\ \E r \in {ext2_rmdir(Fs, Paths[p])} :
       /\ SetFs(r.s)
       /\ op' = [name |-> "ext2_rmdir", ret |-> r.ret, arg |-> <<p>>]
       /\ e2_ghost' = [e2_ghost EXCEPT !.data = <<>>, !.mark = NoMark, !.stage[p] = 0,
                                       !.released = Released(@, r.ret)]
  /\ UNCHANGED <<e2_path, ext2Rest>>

\* A fresh boot on the same disk: ext2_init, then ext2_mount.
Ext2Boot ==
  /\ SetFs(ext2_boot(e2_disk))
  /\ e2_path' = [f \in FileIds |-> 0]
  /\ e2_ghost' = [e2_ghost EXCEPT
                    !.data = <<>>, !.mark = NoMark,
                    !.stage = [p \in PathIds |-> IF @[p] = 3 THEN 4 ELSE 0]]
  /\ op' = [name |-> "ext2_mount", ret |-> 0, arg |-> <<>>]
  /\ UNCHANGED ext2Rest

\* The calls of vfs.c on /f.  s3 follows scenario S3: open (1), write of
\* the pattern (2), close (3), open (4), read (5).
vfsRest == <<proc_table, current_proc, next_pid, kpc, cpu, wstatus, as_live, ks_live,
             released, pipes, pipe_creator, schedVars, pipeVars, xferVars, memVars,
             heap_blocks, heap_size, heap_used, heap_next_va, heap_live, userVars, ext2Vars,
             cwdVars>>
SetVfs(v) == fd_table' = v.ft /\ fd_file' = v.ff /\ ram_f' = v.node
VfsOwner == IF current_proc = NULL THEN 0 ELSE proc_table[current_proc].pid

VfsOpen(flags) ==
  /\ ~panicked
  /\ \E r \in {vfs_open(Vfs, VfsOwner, flags)} :
       /\ SetVfs(r.v)
       /\ s3' = IF r.ret >= 0 /\ s3.stage \in {0, 3}
                  THEN [s3 EXCEPT !.stage = @ + 1, !.fd = r.ret]
                  ELSE NoS3
       /\ op' = [name |-> "vfs_open", ret |-> r.ret, arg |-> <<flags>>]
  /\ UNCHANGED <<panicked, vfsRest>>

VfsWrite(fd, buf) ==
  /\ ~panicked
  /\ \E r \in {vfs_write(Vfs, fd, buf)} :
       /\ SetVfs(r.v)
       /\ panicked' = r.fault
       /\ s3' = IF s3.stage = 1 /\ fd = s3.fd /\ buf = S3Pattern
                  THEN [s3 EXCEPT !.stage = 2] ELSE NoS3
       /\ op' = [name |-> "vfs_write", ret |-> r.ret, arg |-> <<fd>>]
  /\ UNCHANGED vfsRest

VfsRead(fd, count) ==
  /\ ~panicked
  /\ \E r \in {vfs_read(Vfs, fd, count)} :
       /\ SetVfs(r.v)
       /\ panicked' = r.fault
       /\ s3' = IF s3.stage = 4 /\ fd = s3.fd /\ count = Len(S3Pattern)
                  THEN [s3 EXCEPT !.stage = 5, !.data = r.data] ELSE NoS3
       /\ op' = [name |-> "vfs_read", ret |-> r.ret, arg |-> <<fd, count>>]
  /\ UNCHANGED vfsRest

VfsClose(fd) ==
  /\ ~panicked
  /\ fd_table' = vfs_close(fd_table, fd)
  /\ s3' = IF s3.stage = 2 /\ fd = s3.fd /\ fd_table[fd].in_use
             THEN [s3 EXCEPT !.stage = 3] ELSE NoS3
  /\ op' = [name |-> "vfs_close", ret |-> IF fd_table[fd].in_use THEN 0 ELSE -1,
            arg |-> <<fd>>]
  /\ UNCHANGED <<fd_file, ram_f, panicked, vfsRest>>

\* A process in user mode makes one of the directory system calls.  cwd_seen
\* keeps, per PID, the working directory the process last set with chdir or
\* read with getcwd, and for the last call the directory it came out with:
\* the text getcwd returned, or the directory a one-name mkdir created its
\* node in.
cwdRest == <<proc_table, current_proc, next_pid, kpc, wstatus, as_live, ks_live, released,
             fdVars, schedVars, pipeVars, xferVars, memVars, heapVars, userVars, ext2Vars,
             fd_file, ram_f, s3>>
SysState == [ret |-> 0, ft |-> fd_table, ff |-> fd_file, tree |-> ram_tree, cwd |-> cwd]
CwdUsed(num, a, r) ==
  IF num = SYS_GETCWD /\ r.ret > 0 THEN [known |-> TRUE, path |-> r.cwd]
  ELSE IF num = SYS_MKDIR /\ r.ret = 0 /\ ~a.path.abs /\ Len(a.path.comps) = 1
    THEN [known |-> TRUE,
          path |-> NodeParent(CHOOSE n \in r.tree.dirs : n \notin ram_tree.dirs)]
  ELSE NotSeen

SyscallDispatch(num, a) ==
  /\ kpc = "user"
  /\ num = SYS_MKDIR => Len(make_absolute_path(cwd, a.path)) <= MaxDepth
  /\ \E r \in {syscall_dispatch(SysState, num, a)}, pid \in {proc_table[current_proc].pid} :
       /\ ram_tree' = r.tree
       /\ cwd' = r.cwd
       /\ cpu' = [syscall_frame(num) EXCEPT !.rax = r.ret]
       /\ cwd_seen' =
            [seen |-> [cwd_seen.seen EXCEPT ![pid] =
                         IF (num = SYS_CHDIR /\ r.ret = 0) \/ (num = SYS_GETCWD /\ r.ret > 0)
                           THEN [known |-> TRUE, path |-> r.cwd] ELSE @],
             last |-> [had |-> cwd_seen.seen[pid], got |-> CwdUsed(num, a, r)]]
       /\ op' = [name |-> "syscall_dispatch", ret |-> r.ret, arg |-> <<num>>]
  /\ UNCHANGED cwdRest

Fails == {"none", "as", "ks", "load"}
WaitPidArgs == {-1, 0} \cup Pids
CloseArgs == {2, 3, 4, PIPE_FD_FIRST, PIPE_FD_FIRST + 1}

\* Processes: fork, exec, exit and every kind of wait.
Next ==
  \/ \E fail \in Fails : ProcStartFirst(fail)
  \/ \E fail \in Fails \ {"load"} : SysFork(fail)
  \/ \E ok \in BOOLEAN, fail \in Fails : SysExecve(ok, fail)
  \/ \E pid \in WaitPidArgs, options \in {0, WNOHANG}, status \in BOOLEAN :
       SysWait4(pid, options, status)
  \/ EnterUser
  \/ WaitResume
  \/ \E code \in ExitCodes : ProcExit(code)
  \/ ProcExitClose
  \/ ProcExitWake
  \/ ProcExitSched

Spec == Init /\ [][Next]_vars

\* Fork seen from user mode: processes move between user contexts, fork, wait
\* for any child and exit.
NextFork ==
  \/ ProcStartFirst("none")
  \/ \E ctx \in UserCtxs : UserStep(ctx)
  \/ \E fail \in Fails \ {"load"} : SysFork(fail)
  \/ SysWait4(-1, 0, TRUE)
  \/ EnterUser
  \/ WaitResume
  \/ ProcExit(0)
  \/ ProcExitClose
  \/ ProcExitWake
  \/ ProcExitSched

SpecFork == Init /\ [][NextFork]_vars

\* Descriptors: processes open and close files and pipes, fork, wait and exit.
NextFd ==
  \/ ProcStartFirst("none")
  \/ next_pid <= MaxFdPids /\ SysFork("none")
  \/ \E found \in BOOLEAN : SysOpen(found)
  \/ \E fd \in CloseArgs : SysClose(fd)
  \/ SysPipe
  \/ SysWait4(-1, 0, FALSE)
  \/ EnterUser
  \/ WaitResume
  \/ ProcExit(0)
  \/ ProcExitClose
  \/ ProcExitWake
  \/ ProcExitSched

SpecFd == Init /\ [][NextFd]_vars

\* Kernel tasks: creation, exit, yielding, the timer and the ATA channel.
NextSched ==
  \/ \E ok \in BOOLEAN : TaskCreate(ok)
  \/ TaskExit
  \/ SchedYield
  \/ SchedCheckResched
  \/ PitTick
  \/ AtaPrepare
  \/ WaitIrq
  \/ DeviceComplete
  \/ AtaIrq

SpecSched == Init /\ [][NextSched]_vars

\* Round robin observed: every task is always ready and calls
\* sched_check_resched once its slice is used up.
NextRR ==
  \/ PitTick
  \/ SliceCheckResched

InitRR == InitProc /\ InitAta /\ InitTasks

SpecRR == InitRR /\ [][NextRR]_vars

\* Tasks that wait for the disk.  The hardware delivers a raised IRQ once
\* interrupts are enabled, the CPU goes on executing the waiter's loop, and a
\* task running ordinary code reaches sched_yield sooner or later.
NextWait ==
  \/ SchedYield
  \/ SchedCheckResched
  \/ PitTick
  \/ AtaPrepare
  \/ WaitIrq
  \/ DeviceComplete
  \/ AtaIrq

FairSched ==
  /\ InitRR
  /\ [][NextWait]_vars
  /\ WF_vars(AtaIrq)
  /\ WF_vars(WaitIrq)
  /\ WF_vars(SchedYield)

\* Tasks that wait for a disk that may never answer: as FairSched, and the
\* timer keeps ticking whenever interrupts are enabled.
FairTimeout ==
  /\ InitRR
  /\ [][NextWait]_vars
  /\ WF_vars(AtaIrq)
  /\ WF_vars(WaitIrq)
  /\ WF_vars(SchedYield)
  /\ WF_vars(PitTick)

\* Pipes: two processes that create pipes, read, write and close them.
PipeFdArgs == PIPE_FD_FIRST..(PIPE_FD_FIRST + 2 * MAX_PIPES - 1)
PipeCounts == 1..(PIPE_BUF_SIZE + 1)
\* Here a process calls pipe() when no pipe is open, so pipes are used one after another.
NoPipeOpen == \A i \in PipeIds : ~pipes[i].read_open /\ ~pipes[i].write_open

NextPipe ==
  \/ ProcStartFirst("none")
  \/ next_pid <= MaxFdPids /\ SysFork("none")
  \/ NoPipeOpen /\ SysPipe
  \/ \E fd \in PipeFdArgs, count \in PipeCounts : SysRead(fd, count)
  \/ \E fd \in PipeFdArgs, n \in PipeCounts : SysWrite(fd, n)
  \/ PipeReadWait
  \/ PipeWriteWait
  \/ \E fd \in PipeFdArgs : SysClose(fd)
  \/ SysWait4(-1, 0, FALSE)
  \/ EnterUser
  \/ WaitResume
  \/ ProcExit(0)
  \/ ProcExitClose
  \/ ProcExitWake
  \/ ProcExitSched

SpecPipe == Init /\ [][NextPipe]_vars

(***************************************************************************)

\* Disk transfers of one or more sectors, by DMA or PIO, with every behaviour
\* of the device at every attempt.
NextAta ==
  \/ \E write \in BOOLEAN, dma \in BOOLEAN, count \in 1..MaxSectors : AtaStart(write, dma, count)
  \/ \E o \in DmaOutcomes : DmaAttempt(o)
  \/ \E o \in PioReadOutcomes : PioReadAttempt(o)
  \/ \E o \in PioWriteOutcomes : PioWriteAttempt(o)
  \/ AtaReturn

SpecAta == Init /\ [][NextAta]_vars

\* The page allocator called directly: single pages and runs, and frees of the
\* reserved pages at the bottom of memory, of the pages allocations reach, and
\* of the first page past the end of memory (which has a bit in the bitmap).
FreeArgs == (0..(kernel_pml4_phys \div PAGE_SIZE + MaxHeld)) \cup {total_pages}
NextPmm ==
  \/ PmmAlloc
  \/ \E count \in 0..2 : PmmAllocPages(count)
  \/ \E page \in FreeArgs : PmmFree(page)
  \/ \E page \in FreeArgs, count \in 1..2 : PmmFreePages(page, count)

SpecPmm == Init /\ [][NextPmm]_vars

\* Address spaces created, filled, written, cloned and destroyed.  Two of the
\* user pages share a page table, the third needs one of its own; memory runs
\* out when two address spaces hold all three.
UserPages == {<<0, 0, 0, 0>>, <<0, 0, 0, 1>>, <<0, 0, 1, 0>>}
NextVmm ==
  \/ AsCreate
  \/ \E as \in FrameIds, v \in UserPages : AsMap(as, v)
  \/ \E as \in FrameIds, v \in UserPages : UserWrite(as, v)
  \/ \E as \in FrameIds : AsClone(as)
  \/ \E as \in FrameIds : AsDestroy(as)

SpecVmm == Init /\ [][NextVmm]_vars

\* Mappings made and removed by hand in created and cloned address spaces: two
\* user pages under different page directories, the first with the user flag
\* and the second without it, mapped to the first and the last frame of memory.
MapPages == {<<0, 0, 0, 0>>, <<0, 1, 0, 0>>}
MapFrames == {0, total_pages - 1}
NextMap ==
  \/ AsCreate
  \/ \E as \in FrameIds : AsClone(as)
  \/ \E as \in FrameIds, v \in MapPages, f \in MapFrames :
       VmmMapIn(as, v, f * PAGE_SIZE, v = <<0, 0, 0, 0>>)
  \/ \E as \in FrameIds, v \in MapPages : VmmUnmap(as, v)

SpecMap == Init /\ [][NextMap]_vars

\* The heap under requests of 0 bytes, of one byte, of nearly a whole four-page
\* expansion (what is left over is too small to split off) and of the whole
\* initial heap.
KSizes == {0, 1, 4 * PAGE_SIZE - HEAP_HEADER_SIZE - 52,
           HEAP_INITIAL_PAGES * PAGE_SIZE - HEAP_HEADER_SIZE}
NextHeap ==
  \/ \E size \in KSizes : Kmalloc(size)
  \/ \E ptr \in {NULL} \cup {heap_blocks[i].addr + HEAP_HEADER_SIZE : i \in 1..Len(heap_blocks)} :
       Kfree(ptr)

SpecHeap == Init /\ [][NextHeap]_vars

\* The heap with headers destroyed by overruns and kfree of unmapped addresses.
NextHeapFault ==
  \/ NextHeap
  \/ \E i \in 1..Len(heap_blocks) : HeapOverrun(i)
  \/ KfreeUnmapped

SpecHeapFault == Init /\ [][NextHeapFault]_vars

\* System calls with pointer arguments: NULL, a buffer in user space, the last
\* bytes of user space, an address of the kernel and the last bytes of the
\* address space.
UserPtrs == {0, USER_SPACE_END \div 2, USER_SPACE_END - 2, KERNEL_BASE, AddrTop - 2}
\* The descriptors of the one pipe that is open at a time.
UserFds == {PIPE_FD_FIRST, PIPE_FD_FIRST + 1}
NextUser ==
  \/ ProcStartFirst("none")
  \/ next_pid <= MaxFdPids /\ SysFork("none")
  \/ \E ptr \in UserPtrs : NoPipeOpen /\ SysPipeAt(ptr)
  \/ \E fd \in UserFds, buf \in UserPtrs, count \in 0..PIPE_BUF_SIZE :
       SysReadAt(fd, buf, count)
  \/ \E fd \in UserFds : SysWrite(fd, PIPE_BUF_SIZE)
  \/ PipeReadWait
  \/ PipeWriteWait
  \/ \E fd \in UserFds : SysClose(fd)
  \/ \E ptr \in {0, USER_SPACE_END \div 2, KERNEL_BASE}, options \in {0, WNOHANG} :
       SysWait4At(-1, ptr, options)
  \/ WaitResumeAt
  \/ EnterUser
  \/ ProcExit(0)
  \/ ProcExitClose
  \/ ProcExitWake
  \/ ProcExitSched

SpecUser == Init /\ [][NextUser]_vars

\* Files opened through sys_open and through vfs_open_fat32, on ramfs and on
\* a FAT32 mount, and closed again.
NextOpen ==
  \/ ProcStartFirst("none")
  \/ \E found \in BOOLEAN : SysOpen(found)
  \/ \E on_fat32 \in BOOLEAN, found \in BOOLEAN : VfsOpenFat32(on_fat32, found)
  \/ \E fd \in Fds : SysClose(fd)

SpecOpen == Init /\ [][NextOpen]_vars

\* The ext2 driver on two files: sizes that end behind the direct pointers,
\* the single-, the double- and the triple-indirect block, a fresh boot
\* between writing and reading.
LenDirect == block_size + 1
LenSingle == EXT2_NDIR_BLOCKS * block_size + 1
LenDouble == (EXT2_NDIR_BLOCKS + ptrs_per_block) * block_size + 1
LenTriple == (EXT2_NDIR_BLOCKS + ptrs_per_block + ptrs_per_block * ptrs_per_block) * block_size + 1
FileLens == {LenDirect, LenSingle, LenDouble, LenTriple}
NextFile ==
  \/ \E p \in {1, 2} : Ext2Create(p) \/ Ext2Open(p)
  \/ \E f \in FileIds, len \in FileLens :
       /\ e2_files[f].inode.i_size = 0
       /\ e2_path[f] = 2 => len = LenDirect
       /\ Ext2Write(f, len, e2_path[f])
  \/ \E f \in FileIds : Ext2Close(f)
  \/ \E f \in FileIds : e2_files[f].position = 0 /\ Ext2Read(f, LenTriple)
  \/ (\A f \in FileIds : ~e2_files[f].in_use) /\ Ext2Boot
SpecFile == Init /\ [][NextFile]_vars

\* The handle of the last ext2_read and the path it is open on.
ReadFile == op.arg[1]
ReadPath == e2_path[ReadFile]

\* C27: when a path was created, a byte sequence was written to it, the handle
\* was closed, the volume was mounted afresh, the path was opened and the file
\* was read from its start, the read returns the length of the sequence and
\* exactly its bytes, whichever of the direct, single-, double- and
\* triple-indirect ranges the sequence ends in.
RoundTrip ==
  op.name = "ext2_read" /\ ReadPath # 0 /\ e2_ghost.stage[ReadPath] = 6 =>
    /\ op.ret = Len(e2_ghost.want[ReadPath])
    /\ e2_ghost.data = e2_ghost.want[ReadPath]

\* A sequence that ends behind the triple-indirect block has come back after
\* create, write, close, a fresh mount, open and read.
RoundTripTriple ==
  /\ op.name = "ext2_read"
  /\ ReadPath # 0
  /\ e2_ghost.stage[ReadPath] = 6
  /\ op.ret = LenTriple
  /\ e2_ghost.data = BytePattern(LenTriple, ReadPath)

(***************************************************************************)
(* Properties.                                                             *)
(***************************************************************************)
\* The slots holding a live (not FREE) process with the given PID.
SlotsOf(pid) == { i \in Slots : proc_table[i].state # "FREE" /\ proc_table[i].pid = pid }

\* The live children of the process with the given PID, and the zombies among them.
ChildrenOf(pid) == { i \in Slots : proc_table[i].state # "FREE" /\ proc_table[i].parent_pid = pid }
ZombiesOf(pid) == { i \in ChildrenOf(pid) : proc_table[i].state = "ZOMBIE" }

\* C1: whatever fork, exit, exec-style proc_wait and proc_waitpid calls were
\* made, a process's address space, kernel stack and slot are released
\* together and at most once; a process still in the table (a zombie
\* included) has had none of them released, and one that has left the table
\* has had each released exactly once.
C1_ReleasedExactlyOnce ==
  \A p \in Pids :
    /\ released[p].as = released[p].slot
    /\ released[p].ks = released[p].slot
    /\ released[p].slot <= 1
    /\ SlotsOf(p) # {} => released[p].slot = 0
    /\ (p < next_pid /\ SlotsOf(p) = {}) => released[p].slot = 1

\* Two children have been reaped, the last one by a parent that had blocked
\* in proc_waitpid.
C1_Witness ==
  /\ op.name = "wait4_resume"
  /\ op.ret > 0
  /\ \E p, q \in Pids : p # q /\ released[p].slot = 1 /\ released[q].slot = 1

\* C2: on every successful fork the parent gets the child's PID in RAX and goes
\* on at the instruction it was at, and the user frame saved for the child has
\* RAX = 0 and the parent's RIP, RSP and RFLAGS at the fork syscall.
C2_ForkReturns ==
  [][ (kpc = "user" /\ op'.name = "fork" /\ op'.ret > 0) =>
        \E c \in Slots :
          /\ proc_table[c].state = "FREE"
          /\ proc_table'[c].state = "READY"
          /\ proc_table'[c].pid = op'.ret
          /\ proc_table'[c].parent_pid = proc_table[current_proc].pid
          /\ cpu'.rax = proc_table'[c].pid
          /\ cpu'.rip = cpu.rip /\ cpu'.rsp = cpu.rsp /\ cpu'.rflags = cpu.rflags
          /\ proc_table'[c].frame.rax = 0
          /\ proc_table'[c].frame.rip = cpu.rip
          /\ proc_table'[c].frame.rsp = cpu.rsp
          /\ proc_table'[c].frame.rflags = cpu.rflags
          /\ proc_table'[c].user_rip = cpu.rip
          /\ proc_table'[c].user_rsp = cpu.rsp
          /\ proc_table'[c].user_rflags = cpu.rflags ]_vars

\* A process that had moved on from its ELF entry has forked: it holds the
\* child's PID and the child's saved frame holds 0 at the same instruction.
C2_Witness ==
  /\ op.name = "fork"
  /\ op.ret > 0
  /\ kpc = "user"
  /\ cpu.rax = op.ret
  /\ cpu.rip # ElfCtx.rip
  /\ \E c \in Slots : /\ proc_table[c].pid = op.ret
                       /\ proc_table[c].state = "READY"
                       /\ proc_table[c].frame.rax = 0
                       /\ proc_table[c].frame.rip = cpu.rip

\* The slot of the dying process's parent if proc_exit has to wake it: the
\* parent is in the table, BLOCKED, and waits for this PID or for any child.
ParentToWake ==
  { i \in SlotsOf(proc_table[current_proc].parent_pid) :
      /\ proc_table[i].state = "BLOCKED"
      /\ proc_table[i].waiting_for_pid \in {proc_table[current_proc].pid, 0} }

\* C3: proc_exit wakes the parent after the dying process has been
\* marked zombie (and its descriptors closed) and before it yields; the parent
\* goes BLOCKED -> READY exactly when it is blocked and waits for this PID or
\* for any child, and nothing else in the table changes.
C3_WakeAfterZombie ==
  [][ kpc = "exit_wake" =>
        /\ proc_table[current_proc].state = "ZOMBIE"
        /\ kpc' = "exit_sched"
        /\ \A i \in Slots :
             proc_table'[i] = IF i \in ParentToWake
                              THEN [proc_table[i] EXCEPT !.state = "READY"]
                              ELSE proc_table[i] ]_vars

\* The other order: the wake-up happens while the dying process is not yet a zombie.
C3_WakeBeforeZombie ==
  [][ kpc = "exit_wake" =>
        /\ proc_table[current_proc].state # "ZOMBIE"
        /\ \A i \in Slots :
             proc_table'[i] = IF i \in ParentToWake
                              THEN [proc_table[i] EXCEPT !.state = "READY"]
                              ELSE proc_table[i] ]_vars

\* A parent blocked waiting for any child has just been made READY by its
\* exiting child, which is a zombie already.
C3_Witness ==
  /\ op.name = "exit_wake"
  /\ kpc = "exit_sched"
  /\ proc_table[current_proc].state = "ZOMBIE"
  /\ \E i \in SlotsOf(proc_table[current_proc].parent_pid) :
       /\ proc_table[i].state = "READY"
       /\ proc_table[i].saved_rsp = "waitpid_any"
       /\ proc_table[i].waiting_for_pid = 0

\* A call of proc_waitpid with pid = -1 is being made in this step.
WaitAnyCall ==
  /\ kpc = "user"
  /\ op'.name \in {"wait4", "wait4_block"}
  /\ op'.arg[1] = -1

\* What a wait-for-any call does when the caller has no child, and when one of
\* its children is a zombie.
WaitAnyNoChild ==
  /\ op'.name = "wait4"
  /\ op'.ret = -ECHILD
  /\ UNCHANGED <<proc_table, current_proc, as_live, ks_live>>

WaitAnyReaps ==
  \E z \in ZombiesOf(proc_table[current_proc].pid) :
    /\ op'.name = "wait4"
    /\ op'.ret = proc_table[z].pid
    /\ proc_table'[z].state = "FREE"
    /\ \A i \in Slots \ {z} : proc_table'[i] = proc_table[i]
    /\ UNCHANGED current_proc

WaitAnyBlocks ==
  /\ op'.name = "wait4_block"
  /\ proc_table'[current_proc].state = "BLOCKED"
  /\ proc_table'[current_proc].waiting_for_pid = 0
  /\ current_proc' # current_proc \/ kpc' = "halt"

\* C4: wait-for-any returns ECHILD when the caller has no
\* children; reaps a zombie child and returns its PID when there is one;
\* otherwise returns 0 at once when WNOHANG is set, and blocks with
\* waiting-for = 0 when it is not.
C4_WaitAny ==
  [][ WaitAnyCall =>
        IF ChildrenOf(proc_table[current_proc].pid) = {} THEN WaitAnyNoChild
        ELSE IF ZombiesOf(proc_table[current_proc].pid) # {} THEN WaitAnyReaps
        ELSE IF op'.arg[2] = WNOHANG
        THEN /\ op'.name = "wait4"
             /\ op'.ret = 0
             /\ UNCHANGED <<proc_table, current_proc>>
        ELSE WaitAnyBlocks ]_vars

\* Without the WNOHANG case: with children and no zombie among them the caller
\* always blocks.
C4_WaitAnyAlwaysBlocks ==
  [][ WaitAnyCall =>
        IF ChildrenOf(proc_table[current_proc].pid) = {} THEN WaitAnyNoChild
        ELSE IF ZombiesOf(proc_table[current_proc].pid) # {} THEN WaitAnyReaps
        ELSE WaitAnyBlocks ]_vars

\* A wait-for-any with WNOHANG has returned 0 to a caller whose children are
\* all still alive.
C4_Witness ==
  /\ op = [name |-> "wait4", ret |-> 0, arg |-> <<-1, WNOHANG>>]
  /\ kpc = "user"
  /\ ChildrenOf(proc_table[current_proc].pid) # {}
  /\ ZombiesOf(proc_table[current_proc].pid) = {}

\* C5: every slot that is not FREE holds an address space and a kernel stack
\* that are allocated and that no other slot holds; this includes ZOMBIE slots,
\* which keep both until the slot is freed by the reaping wait.
C5_OwnsLiveResources ==
  \A i \in Slots :
    proc_table[i].state # "FREE" =>
      /\ proc_table[i].cr3 \in as_live
      /\ proc_table[i].kernel_stack \in ks_live
      /\ \A j \in Slots \ {i} :
           proc_table[j].state # "FREE" =>
             /\ proc_table[j].cr3 # proc_table[i].cr3
             /\ proc_table[j].kernel_stack # proc_table[i].kernel_stack

\* A zombie sits in the table, still holding its address space and stack, next
\* to two live processes, after another child has been reaped.
C5_Witness ==
  /\ \E i \in Slots : /\ proc_table[i].state = "ZOMBIE"
                      /\ proc_table[i].cr3 \in as_live
                      /\ proc_table[i].kernel_stack \in ks_live
  /\ Cardinality({ i \in Slots : proc_table[i].state # "FREE" }) = PROC_MAX
  /\ \E p \in Pids : released[p].slot = 1

\* C6: the close step of proc_exit closes every descriptor the dying
\* process owns, the descriptors of the pipes it created included, and leaves
\* every other descriptor and pipe as it was.
C6_ExitClosesOwned ==
  [][ kpc = "exit_close" =>
        /\ \A f \in Fds :
             fd_table'[f] = IF /\ fd_table[f].in_use
                               /\ fd_table[f].owner_pid = proc_table[current_proc].pid
                            THEN [fd_table[f] EXCEPT !.in_use = FALSE]
                            ELSE fd_table[f]
        /\ \A i \in PipeIds :
             IF pipe_creator[i] = proc_table[current_proc].pid
             THEN ~pipes'[i].read_open /\ ~pipes'[i].write_open
             ELSE pipes'[i] = pipes[i] ]_vars

\* A process has exited and both ends of a pipe it created are still open.
C6_Witness ==
  /\ kpc = "exit_wake"
  /\ \E i \in PipeIds :
       /\ pipe_creator[i] = proc_table[current_proc].pid
       /\ pipes[i].read_open
       /\ pipes[i].write_open

\* The waiter t has blocked in wait_irq and ata_irq has since handled the
\* completion of its command: the channel is IDLE with t still attached.
IrqSatisfied(t) ==
  /\ ch_waiter = t
  /\ ch_state = "IDLE"
  /\ tpc[t] \in {"in_block", "wait_irq"}

\* The task is on the CPU again, back from wait_irq.
RunsAgain(t) == current_task = t /\ tpc[t] = "run"

C8_NoResumeBeforeUnblock ==
  \A t \in TaskIds :
    (current_task = t /\ tpc[t] = "wait_irq") => t \notin awaiting

\* The idle task is back from sched_block with the channel still PENDING and
\* no IRQ handled.
C8_Witness ==
  /\ current_task = idle_task
  /\ tpc[idle_task] = "wait_irq"
  /\ idle_task \in awaiting
  /\ ch_state = "PENDING"

\* Tasks other than the current one that sched_yield could switch to.
OthersReady == { t \in TaskIds \ {current_task} : tstate[t] = "READY" }

\* C9: a timer tick only counts the current task's slice down (not below 0)
\* and sets need_resched once the slice is at 0: it switches nothing.  Only
\* sched_yield, sched_block, task_exit and sched_check_resched change the
\* running task; sched_check_resched does nothing unless need_resched is set,
\* and then clears it and yields to the next READY task.
C9_TickOnlyFlags ==
  [][ /\ op'.name = "pit_tick" =>
           /\ UNCHANGED <<current_task, tstate, tpc, task_list, intr>>
           /\ ticks_remaining' =
                [ticks_remaining EXCEPT ![current_task] = IF @ > 0 THEN @ - 1 ELSE 0]
           /\ need_resched' = (need_resched \/ ticks_remaining'[current_task] = 0)
      /\ current_task' # current_task =>
           op'.name \in {"sched_yield", "sched_block", "task_exit", "sched_check_resched"}
      /\ op'.name = "sched_check_resched" =>
           IF need_resched
           THEN /\ ~need_resched'
                /\ tstate'[current_task'] = "RUNNING"
                /\ OthersReady # {} =>
                     /\ current_task' \in OthersReady
                     /\ tstate'[current_task] = "READY"
                     /\ ticks_remaining'[current_task'] = DEFAULT_TIME_SLICE
                /\ OthersReady = {} => current_task' = current_task
           ELSE UNCHANGED taskVars ]_vars

\* A task whose slice ran out was switched out by sched_check_resched.
C9_Witness ==
  /\ op.name = "sched_check_resched"
  /\ ~need_resched
  /\ \E t \in TaskIds \ {current_task} :
       tpc[t] = "in_yield" /\ ticks_remaining[t] = 0 /\ tstate[t] = "READY"

\* C10: with every task always ready and rescheduled when its slice is used up,
\* no task is ever more than one slice ahead of another, and whenever the
\* slices handed out are a multiple K x N of the number of tasks N, every
\* task has had exactly K of them.
C10_RoundRobinFair ==
  /\ \A a, b \in TaskIds : slices[a] - slices[b] <= 1
  /\ \A k \in 1..MaxSlices :
       (\E a \in TaskIds : slices[a] = k /\ \A b \in TaskIds : slices[b] >= k)
         => \A b \in TaskIds : slices[b] \in {k, k + 1}

\* Three rounds are complete: every task has had exactly three slices.
C10_Witness ==
  /\ \A t \in TaskIds : slices[t] = 3
  /\ op.name = "sched_check_resched"

\* The bytes held in pipe i's buffer, oldest first.
InBuffer(i) == pipe_take(pipe_buf[i], pipe_buf[i].count).out

\* The last step was a read that returned 0 from the read end of pipe i.
ReadEOF(i) ==
  /\ op.name = "read"
  /\ op.ret = 0
  /\ find_pipe_by_fd(pipes, op.arg[1]) = [pipe |-> i, is_read |-> TRUE]

\* C11: the bytes read from a pipe followed by the bytes still in its buffer
\* are the bytes written to it, in order, whatever the sizes of the write and
\* read calls; so a reader that has read until EOF (a read returning 0) has
\* read exactly the X bytes that were written before the write end was closed.
C11_ReaderTotalEqualsWritten ==
  \A i \in PipeIds :
    /\ pipe_in[i] = pipe_out[i] \o InBuffer(i)
    /\ pipe_buf[i].count <= PIPE_BUF_SIZE
    /\ ReadEOF(i) => /\ ~pipes[i].write_open
                     /\ pipe_out[i] = pipe_in[i]

\* A reader has reached EOF on a pipe through which more bytes than the buffer
\* holds were written, so the buffer positions have wrapped round.
C11_Witness ==
  \E i \in PipeIds :
    /\ ReadEOF(i)
    /\ Len(pipe_in[i]) = MaxPipeBytes
    /\ pipe_out[i] = pipe_in[i]

\* Some process other than the running one is READY.
OtherProcReady == \E j \in Slots : j # current_proc /\ proc_table[j].state = "READY"

\* In this step the running process goes to sleep: it is BLOCKED afterwards and
\* the CPU goes to a READY process if there is one.
CallerSuspended ==
  /\ proc_table'[current_proc].state = "BLOCKED"
  /\ OtherProcReady => current_proc' # current_proc

\* This step is a read() call (a write() call) on the open read (write) end of pipe i.
ReadCallOn(i) ==
  /\ kpc = "user"
  /\ op'.name \in {"read", "read_wait"}
  /\ find_pipe_by_fd(pipes, op'.arg[1]) = [pipe |-> i, is_read |-> TRUE]

WriteCallOn(i) ==
  /\ kpc = "user"
  /\ op'.name \in {"write", "write_wait"}
  /\ find_pipe_by_fd(pipes, op'.arg[1]) = [pipe |-> i, is_read |-> FALSE]

\* C12: a read on a pipe whose buffer is empty and whose write end is open
\* blocks, the reader being suspended so that a writer can run; a read returns
\* 0 exactly when the buffer is empty and the write end is closed; otherwise
\* it returns the bytes there are, up to the count asked for.
C12_ReadBlocksWhileEmpty ==
  [][ \A i \in PipeIds :
        ReadCallOn(i) =>
          IF pipe_buf[i].count = 0 /\ pipes[i].write_open
          THEN op'.name = "read_wait" /\ CallerSuspended
          ELSE /\ op'.name = "read"
               /\ op'.ret = IF op'.arg[2] > pipe_buf[i].count
                            THEN pipe_buf[i].count ELSE op'.arg[2]
               /\ op'.ret = 0 <=> (pipe_buf[i].count = 0 /\ ~pipes[i].write_open) ]_vars

\* A reader sits in pipe_read's wait loop, holding the CPU, on an empty pipe
\* whose write end is open, while another process is READY and cannot run.
C12_Witness ==
  /\ kpc = "pipe_read_wait"
  /\ proc_table[current_proc].state = "RUNNING"
  /\ pipe_buf[pipe_wait.pipe].count = 0
  /\ pipes[pipe_wait.pipe].write_open
  /\ OtherProcReady

\* C13: a write on a pipe whose read end is closed fails with EPIPE and leaves
\* the pipe alone; a write on a full pipe whose read end is open blocks, the
\* writer being suspended; a write that waited and finds the read end closed
\* fails with EPIPE; any other write puts in the bytes there is space for.
C13_WriteBlocksWhileFull ==
  [][ /\ \A i \in PipeIds :
           WriteCallOn(i) =>
             IF ~pipes[i].read_open
             THEN op' = [name |-> "write", ret |-> -EPIPE, arg |-> op'.arg]
                  /\ UNCHANGED <<pipe_buf, pipe_in>>
             ELSE IF pipe_buf[i].count >= PIPE_BUF_SIZE
             THEN op'.name = "write_wait" /\ CallerSuspended
             ELSE /\ op'.name = "write"
                  /\ op'.ret = IF op'.arg[2] > PIPE_BUF_SIZE - pipe_buf[i].count
                               THEN PIPE_BUF_SIZE - pipe_buf[i].count ELSE op'.arg[2]
      /\ (kpc = "pipe_write_wait" /\ kpc' = "user") =>
           IF ~pipes[pipe_wait.pipe].read_open THEN op'.ret = -EPIPE ELSE op'.ret > 0
    ]_vars

\* A writer sits in pipe_write's wait loop, holding the CPU, on a full pipe
\* whose read end is open, while another process is READY and cannot run.
C13_Witness ==
  /\ kpc = "pipe_write_wait"
  /\ proc_table[current_proc].state = "RUNNING"
  /\ pipe_buf[pipe_wait.pipe].count = PIPE_BUF_SIZE
  /\ pipes[pipe_wait.pipe].read_open
  /\ OtherProcReady

\* The task is inside wait_irq: about to test the channel, parked by
\* sched_block, or back from it.
InWaitIrq(t) == tpc[t] \in {"wait_entry", "in_block", "wait_irq"}

C15_WaitBoundedByDeadline ==
  /\ [][ op'.name = "wait_irq_timeout" =>
           /\ elapsed >= TIMEOUT_TICKS
           /\ ch_state' = "IDLE"
           /\ ch_waiter' = NULL
           /\ tpc'[current_task] = "run" ]_vars
  /\ \A t \in TaskIds : InWaitIrq(t) ~> ~InWaitIrq(t)

\* A task other than the idle task is BLOCKED in wait_irq, its deadline has
\* passed, the device has raised no IRQ, and another task has the CPU.
C15_Witness ==
  \E t \in TaskIds \ {idle_task} :
    /\ tstate[t] = "BLOCKED"
    /\ tpc[t] = "in_block"
    /\ ch_waiter = t
    /\ ch_state = "PENDING"
    /\ elapsed >= TIMEOUT_TICKS
    /\ hw_busy /\ ~irq_line
    /\ current_task # t

\* The error a failed attempt stands for: ETIMEDOUT when the IRQ never came, EIO
\* for everything the device reported.
AttemptError(o) == IF o = "silent" THEN "ETIMEDOUT" ELSE "EIO"

\* C16: a transfer makes at most MAX_RETRIES attempts per command; it returns a
\* failure only after MAX_RETRIES failed attempts, and then EIO if the device
\* reported an error and ETIMEDOUT if it timed out; it returns success when the
\* last attempt succeeded.
C16_RetryThenSurface ==
  /\ Len(xfer.hist) <= MAX_RETRIES
  /\ xfer.path = "ret" =>
       /\ xfer.hist # <<>>
       /\ xfer.hist[Len(xfer.hist)] = "done" => xfer.ret = "OK"
       /\ xfer.ret # "OK" =>
            /\ Len(xfer.hist) = MAX_RETRIES
            /\ \A k \in 1..MAX_RETRIES : xfer.hist[k] # "done"
            /\ xfer.ret = AttemptError(xfer.hist[MAX_RETRIES])

\* dma_transfer returns after MAX_RETRIES attempts that all timed out.
C16_Witness ==
  /\ xfer.path = "ret"
  /\ xfer.retry = MAX_RETRIES
  /\ xfer.hist = <<"silent", "silent", "silent">>
  /\ xfer.ret # "OK"

\* Pages pmm_init left free.
InitFreePages == pmm_init(MemMap).free_pages

\* C17: as long as every free was of a page its caller held, the free byte count
\* is the initial one less the pages held; with allocations and frees balanced
\* (nothing held but the kernel PML4) it is what it was before them, whatever
\* the order of the calls.
C17_BalancedConservesFree ==
  ~pmm_stray =>
    /\ pmm_get_free(Pmm) = (InitFreePages - Cardinality(pmm_handed)) * PAGE_SIZE
    /\ \A p \in PageIds : bitmap[p] <=> (pmm_init(MemMap).bitmap[p] \/ p \in pmm_handed)

\* Pages were allocated and every one of them has been freed: nothing is held
\* again but the kernel PML4, and the last call was a free.
C17_Witness ==
  /\ ~pmm_stray
  /\ op.name \in {"pmm_free", "pmm_free_pages"}
  /\ pmm_handed = {kernel_pml4_phys \div PAGE_SIZE}
  /\ free_pages = InitFreePages - 1

\* C18: pmm_free of a page that no caller holds (its bit clear, or set since
\* boot) changes neither the bitmap nor the free count.
C18_StrayFreeIgnored ==
  [][ (op'.name = "pmm_free" /\ op'.arg[1] \notin pmm_handed) =>
        (bitmap' = bitmap /\ free_pages' = free_pages) ]_vars

\* pmm_free was called on a page that pmm_init reserved, and the page is free.
C18_Witness ==
  /\ op.name = "pmm_free"
  /\ pmm_init(MemMap).bitmap[op.arg[1]]
  /\ ~bitmap[op.arg[1]]
  /\ free_pages > InitFreePages

\* The user pages, the pages an address space maps, and the frames behind them.
UserVirts == {VirtSeq[k] : k \in DOMAIN VirtSeq}
MappedPages(tb, as) == {v \in UserVirts : LeafEntry(tb, as, v).present}
LeafFrames(tb, as) == {LeafEntry(tb, as, v).frame : v \in MappedPages(tb, as)}

\* The frames the present entries of a set of tables name.
Named(tb, ts, idxs) ==
  UNION {{tb[t][i].frame : i \in {j \in idxs : tb[t][j].present}} : t \in ts}

\* The table pages below the user half of an address space, the pages that make
\* up an address space, and the tables below the kernel half of the kernel PML4.
LowTables(tb, as) ==
  LET pdpts == Named(tb, {as}, LowHalf)
      pds == Named(tb, pdpts, AllIdx)
      pts == Named(tb, pds, AllIdx)
  IN  pdpts \cup pds \cup pts
OwnFrames(tb, as) == {as} \cup LowTables(tb, as) \cup LeafFrames(tb, as)
HighTables(tb) ==
  LET pdpts == Named(tb, {kernel_pml4_phys \div PAGE_SIZE}, HighHalf)
      pds == Named(tb, pdpts, AllIdx)
      pts == Named(tb, pds, AllIdx)
  IN  pdpts \cup pds \cup pts

\* C19: no leaf frame is mapped by two address spaces; cloning leaves the
\* mappings and the contents of the source as they were; and a write through a
\* page of one address space leaves every page of every other address space
\* reading what it read before.
C19_CloneIsolated ==
  [][ /\ \A a \in spaces', b \in spaces' :
           a # b => LeafFrames(tables', a) \cap LeafFrames(tables', b) = {}
      /\ (op'.name = "vmm_clone_address_space" /\ op'.ret # 0) =>
           \A v \in UserVirts :
             /\ LeafEntry(tables', op'.arg[1], v) = LeafEntry(tables, op'.arg[1], v)
             /\ LeafEntry(tables, op'.arg[1], v).present =>
                  /\ data'[LeafEntry(tables, op'.arg[1], v).frame]
                       = data[LeafEntry(tables, op'.arg[1], v).frame]
                  /\ LeafEntry(tables', op'.ret \div PAGE_SIZE, v).present =>
                       data'[LeafEntry(tables', op'.ret \div PAGE_SIZE, v).frame]
                         = data[LeafEntry(tables, op'.arg[1], v).frame]
      /\ op'.name = "user_write" =>
           \A a \in spaces \ {op'.arg[1]} : \A f \in LeafFrames(tables, a) :
             data'[f] = data[f]
    ]_vars

\* A clone has written its pattern to every one of its pages, of which there
\* are two, and the address space it was cloned from still reads the loaded
\* contents at both.
C19_Witness ==
  \E b \in spaces :
    /\ clone_src[b] \in spaces
    /\ op.name = "user_write" /\ op.arg[1] = b
    /\ Cardinality(MappedPages(tables, b)) = 2
    /\ MappedPages(tables, clone_src[b]) = MappedPages(tables, b)
    /\ \A v \in MappedPages(tables, b) :
         /\ data[LeafEntry(tables, b, v).frame] = Pattern(b)
         /\ data[LeafEntry(tables, clone_src[b], v).frame] = LoadedData

\* The pages a step frees.
Freed == {p \in FrameIds : bitmap[p] /\ ~bitmap'[p]}

C21_MapRoundTrip ==
  [][ /\ op'.name = "vmm_map_in_any" =>
           vmm_get_phys_in(tables', op'.arg[1], op'.arg[2]) = op'.ret
      /\ op'.name = "vmm_unmap" =>
           vmm_get_phys(tables', op'.arg[1], op'.arg[2]) = 0 ]_vars

\* vmm_map_in was called with the last frame while no page was free and a table
\* above the page was missing: the page is not mapped.
C21_Witness ==
  /\ op.name = "vmm_map_in_any"
  /\ op.ret # 0
  /\ free_pages = 0
  /\ vmm_get_phys_in(tables, op.arg[1], op.arg[2]) = 0

\* Two allocations whose payloads share no byte.
Disjoint(a, b) == a.ptr + a.size <= b.ptr \/ b.ptr + b.size <= a.ptr

\* The live allocations lie in the heap, are 16-byte aligned and pairwise
\* disjoint.
LiveApart ==
  /\ \A a \in heap_live :
       /\ a.ptr % 16 = 0
       /\ a.ptr >= HEAP_HEADER_SIZE
       /\ a.ptr + a.size <= heap_next_va
  /\ \A a, b \in heap_live : a # b => Disjoint(a, b)

\* A pointer kmalloc returns is not one of a live allocation.
FreshStep ==
  (op'.name = "kmalloc" /\ op'.ret # NULL) =>
     /\ op'.ret \notin {a.ptr : a \in heap_live}
     /\ Cardinality(heap_live') = Cardinality(heap_live) + 1

\* Once kfree has released a block, a kmalloc of the same size is served from
\* the free memory at or before it, without expanding the heap.
ReuseStep ==
  op'.name = "kfree" =>
     \A a \in heap_live \ heap_live' :
       /\ kmalloc(Heap', a.size).ret # NULL
       /\ kmalloc(Heap', a.size).ret <= a.ptr
       /\ kmalloc(Heap', a.size).h.size = heap_size'

\* C22: the payloads of the live allocations are pairwise disjoint, every
\* pointer is 16-byte aligned, a pointer kmalloc returns is not one of a live
\* allocation, and a freed block is reused by a following kmalloc of the same
\* size.
C22_HeapCorrect == []LiveApart /\ [][FreshStep /\ ReuseStep]_vars

\* Three allocations are alive in a heap that was expanded and in which an
\* earlier allocation was freed.
C22_Witness ==
  /\ Cardinality(heap_live) = MaxLive
  /\ heap_size > HEAP_INITIAL_PAGES * PAGE_SIZE
  /\ \E i \in 1..Len(heap_blocks) : heap_blocks[i].free /\ i < Len(heap_blocks)

\* The steps in which kfree returns to its caller.
KfreeReturns == {"kfree", "kfree_null", "kfree_bad_magic", "kfree_double_free"}

\* C23: when kfree returns, no two neighbours of the block list are both free.
C23_CoalescedAfterFree ==
  [][ op'.name \in KfreeReturns =>
        \A i \in 1..(Len(heap_blocks') - 1) :
          ~(heap_blocks'[i].free /\ heap_blocks'[i + 1].free) ]_vars

\* kfree merged the freed block with its neighbours on both sides, across the
\* end of the initial heap: one free block is left in an expanded heap.
C23_Witness ==
  /\ op.name = "kfree"
  /\ heap_size > HEAP_INITIAL_PAGES * PAGE_SIZE
  /\ Len(heap_blocks) = 1
  /\ heap_blocks[1].free

\* C24: a kfree that finds a destroyed magic or a block that is already free
\* does not return: the panic handler runs and the CPU halts.
C24_BadFreeIsFatal ==
  [][ op'.name \in {"kfree_bad_magic", "kfree_double_free", "kfree_fault"} =>
        panicked' ]_vars

\* kfree found a destroyed magic and returned to its caller.
C24_Witness ==
  /\ op.name = "kfree_bad_magic"
  /\ ~panicked

\* C25: the memory a system call uses through a pointer argument lies in user
\* space, and a call that returns -EFAULT has used none.
C25_UserPointersChecked ==
  /\ uaccess.len > 0 => uaccess.addr + uaccess.len <= USER_SPACE_END
  /\ (op.name \in {"read", "pipe", "wait4"} /\ op.ret = -EFAULT) => uaccess = NoAccess

\* sys_pipe was given an address of the kernel and stored the two descriptors
\* there.
C25_Witness ==
  /\ op.name = "pipe"
  /\ op.ret = 0
  /\ uaccess.addr = KERNEL_BASE
  /\ uaccess.len = 8

\* C26: a descriptor that a successful open returns is at least 3.
C26_OpenSkipsStdio ==
  [][ (op'.name \in {"open", "vfs_open_fat32"} /\ op'.ret >= 0) => op'.ret >= 3 ]_vars

\* vfs_open_fat32 opened a file of a FAT32 mount as descriptor 0.
C26_Witness ==
  /\ op.name = "vfs_open_fat32"
  /\ op.ret = 0
  /\ fd_table[0].in_use
\* Files and a directory: path 1 is a file of the root, path 3 a directory
\* and path 4 a file in it.  One handle is open at a time; 13 blocks are
\* written to path 1 while it is empty.  Truncate, unlink
\* and rmdir succeed MaxReleases times in all.
TreeFiles == {1, 4}
NoHandle == \A f \in FileIds : ~e2_files[f].in_use
CanRelease == e2_ghost.released < MaxReleases
NextTree ==
  \/ \E p \in TreeFiles : NoHandle /\ Ext2Create(p)
  \/ \E p \in TreeFiles : NoHandle /\ Ext2Open(p)
  \/ \E f \in FileIds :
       /\ e2_files[f].inode.i_size = 0
       /\ e2_path[f] = 1
       /\ Ext2Write(f, Blocks13, 1)
  \/ \E f \in FileIds : CanRelease /\ Ext2Truncate(f)
  \/ \E f \in FileIds : Ext2Close(f)
  \/ Ext2Mkdir(3)
  \/ \E p \in TreeFiles : CanRelease /\ Ext2Unlink(p)
  \/ CanRelease /\ Ext2Rmdir(3)
SpecTree == Init /\ [][NextTree]_vars

\* The directory of path 3 holds the file of path 4.
NonEmptyDir == resolve_path(Fs, Paths[4]).ret = 0

\* ext2_open of a path that was unlinked and not made again returns v.
GoneOpenReturns(v) ==
  op.name = "ext2_open" /\ op.arg[1] \in e2_ghost.gone => op.ret = v

\* ext2_rmdir of a directory that holds a file returns -ENOTEMPTY and leaves
\* the disk and the mounted volume as they were.
RmdirNonEmptyKeeps ==
  op'.name = "ext2_rmdir" /\ NonEmptyDir =>
    op'.ret = -ENOTEMPTY /\ UNCHANGED <<e2_disk, e2_vol>>

\* C28: after unlink(P) succeeded open(P) returns ENOENT, and rmdir(D) of a
\* non-empty directory D returns ENOTEMPTY while D, its entries and its link
\* counts stay as they were.
UnlinkRmdirSemantics ==
  [][GoneOpenReturns(-ENOENT)' /\ RmdirNonEmptyKeeps]_vars

\* What ext2_open does return: NULL, its only failure value.
UnlinkRmdirNull ==
  [][GoneOpenReturns(NULL)' /\ RmdirNonEmptyKeeps]_vars

\* An unlinked path was opened, and the open failed.
GoneOpenFailed ==
  op.name = "ext2_open" /\ op.arg[1] \in e2_ghost.gone /\ op.ret = NULL

\* ext2_rmdir has refused the directory while it holds a file.
RmdirRefused == op.name = "ext2_rmdir" /\ op.ret = -ENOTEMPTY /\ NonEmptyDir

\* The handle that wrote 13 blocks to a new file is the one of the last call.
MarkedCall(name) ==
  op.name = name /\ e2_ghost.mark.file # NULL /\ op.arg[1] = e2_ghost.mark.file

\* C29: when 13 blocks were written to a new file the free-block count, in the
\* superblock and in the bitmaps, is 14 less than before the write (12 direct
\* blocks, the single-indirect table and the first block behind it), and when
\* that file is truncated next the count is what it was before the write.
BlockAccounting ==
  /\ MarkedCall("ext2_write") =>
       /\ FreeCount = e2_ghost.mark.free - 14
       /\ FreeBits(e2_disk) = e2_ghost.mark.free - 14
  /\ MarkedCall("ext2_truncate") =>
       /\ FreeCount = e2_ghost.mark.free
       /\ FreeBits(e2_disk) = e2_ghost.mark.free

\* The file of 13 blocks was truncated and the count is back.
TruncatedBack ==
  /\ MarkedCall("ext2_truncate")
  /\ op.ret = 0
  /\ FreeCount = e2_ghost.mark.free

\* The counters of the mounted volume and the ones on the disk agree.
CountsOnDisk == e2_disk.sb = e2_vol.sb /\ e2_disk.gd = e2_vol.groups
MetadataCalls ==
  {"ext2_write", "ext2_create", "ext2_mkdir", "ext2_unlink", "ext2_rmdir", "ext2_truncate"}

\* C30: when write, create, mkdir, unlink, rmdir or truncate returns, the
\* superblock and the group descriptors on the disk equal the ones in memory.
MetadataFlushed == op.name \in MetadataCalls => CountsOnDisk

\* ext2_write has allocated blocks and returned with the old counts on disk.
WriteLeftCountsStale ==
  /\ op.name = "ext2_write"
  /\ op.ret > 0
  /\ e2_disk.sb.s_free_blocks_count > e2_vol.sb.s_free_blocks_count

\* Scenario S3 on ramfs: /f is opened with and without O_CREAT, O_TRUNC and
\* O_APPEND, written, read and closed through its descriptors.
OpenFlags == {0, O_CREAT, O_CREAT + O_TRUNC, O_APPEND}
NextRam ==
  \/ ProcStartFirst("none")
  \/ \E flags \in OpenFlags : VfsOpen(flags)
  \/ \E fd \in Fds : VfsWrite(fd, S3Pattern)
  \/ \E fd \in Fds : VfsRead(fd, Len(S3Pattern))
  \/ \E fd \in Fds : VfsClose(fd)
SpecRam == Init /\ [][NextRam]_vars

\* C31: the write of the byte sequence of S3 through a descriptor that open
\* returned for /f returns the length of the sequence and the kernel runs on,
\* and after close and another open the read of as many bytes returns the
\* identical sequence.
S3RoundTrip ==
  /\ s3.stage = 2 => ~panicked /\ op.ret = Len(S3Pattern)
  /\ s3.stage = 5 => s3.data = S3Pattern

\* The write of scenario S3 was called on the descriptor open returned, and
\* the kernel has halted in it.
S3WriteFaulted == s3.stage = 2 /\ op.name = "vfs_write" /\ panicked


(***************************************************************************)
(* The directory system calls made by processes that fork, wait and exit.  *)
(***************************************************************************)
FsFamily == {SYS_GETDENTS, SYS_GETDENTS64, SYS_GETCWD, SYS_CHDIR, SYS_MKDIR,
             SYS_UNLINK, SYS_RMDIR}
ChdirPaths == {AbsPath(<<>>), RelPath(<<"dev">>), RelPath(<<"..">>)}
MkdirPaths == {RelPath(<<"a">>)}
UnlinkPaths == {AbsPath(<<"dev", "hda">>), RelPath(<<"hda">>)}
\* The arguments that matter to each call: a pointer and a size or count for
\* getdents and getcwd, a path for the others.
NoArgs == [ptr |-> USER_SPACE_END \div 2, n |-> 32, fd |-> 3, path |-> AbsPath(<<>>),
           mem |-> TRUE]
SysArgs(num) ==
  IF num \in {SYS_GETDENTS, SYS_GETDENTS64, SYS_GETCWD}
    THEN { [NoArgs EXCEPT !.ptr = q, !.n = n] :
             q \in {0, USER_SPACE_END \div 2, KERNEL_BASE}, n \in {0, 1, 32} }
  ELSE IF num = SYS_CHDIR
    THEN { [NoArgs EXCEPT !.path = q] : q \in ChdirPaths } \cup {[NoArgs EXCEPT !.ptr = 0]}
  ELSE IF num \in {SYS_UNLINK, SYS_RMDIR}
    THEN { [NoArgs EXCEPT !.path = q] : q \in UnlinkPaths } \cup {[NoArgs EXCEPT !.ptr = 0]}
  ELSE IF num = SYS_MKDIR
    THEN { [NoArgs EXCEPT !.path = q, !.mem = m] : q \in MkdirPaths, m \in BOOLEAN }
  ELSE {NoArgs}
\* Two processes: the first one forks once.
ForkOnce == next_pid <= 2 /\ SysFork("none")
NextCwd ==
  \/ ProcStartFirst("none")
  \/ ForkOnce
  \/ SysWait4(-1, 0, TRUE)
  \/ EnterUser
  \/ WaitResume
  \/ ProcExit(0)
  \/ ProcExitClose
  \/ ProcExitWake
  \/ ProcExitSched
  \/ \E num \in FsFamily \cup {SYS_MAX} : \E a \in SysArgs(num) : SyscallDispatch(num, a)

SpecCwd == Init /\ [][NextCwd]_vars

\* C32: each number of the directory family (getdents, getdents64, getcwd,
\* chdir, mkdir, unlink, rmdir) is dispatched to a handler: syscall_dispatch
\* never answers one of them with the not-implemented error.
FamilyDispatched ==
  op.name = "syscall_dispatch" /\ op.arg[1] \in FsFamily => op.ret # -ENOSYS

\* rmdir was dispatched and answered with the not-implemented error.
RmdirNotImplemented ==
  op.name = "syscall_dispatch" /\ op.arg[1] = SYS_RMDIR /\ op.ret = -ENOSYS

\* The numbers of the family that the table does carry reached their
\* handlers: a chdir into /dev was performed.
ChdirPerformed ==
  op.name = "syscall_dispatch" /\ op.arg[1] = SYS_CHDIR /\ op.ret = 0 /\ cwd = <<"dev">>

\* C39: the working directory is per process: when a process that has set or
\* read its working directory reads it again with getcwd, or creates a
\* directory by a relative name, the call uses the directory that process
\* last set or read, whatever chdir calls other processes made in between.
CwdPerProcess ==
  op.name = "syscall_dispatch" /\ cwd_seen.last.had.known /\ cwd_seen.last.got.known
    => IF op.arg[1] = SYS_GETCWD
         THEN cwd_seen.last.got.path = cwd_seen.last.had.path
         ELSE cwd_seen.last.got.path = normalize_path(cwd_seen.last.had.path)

\* getcwd returned a process a directory other than the one it had last set
\* or read itself.
CwdMovedByOther ==
  /\ op.name = "syscall_dispatch" /\ op.arg[1] = SYS_GETCWD /\ op.ret > 0
  /\ cwd_seen.last.had.known
  /\ cwd_seen.last.got.path # cwd_seen.last.had.path

\* C33: a task changes state only along READY <-> RUNNING, RUNNING -> BLOCKED,
\* BLOCKED -> READY and RUNNING -> ZOMBIE (a created task starts READY), and
\* at most one task is RUNNING at a time.
TaskStateEdges == {<<"READY", "RUNNING">>, <<"RUNNING", "READY">>, <<"RUNNING", "BLOCKED">>,
                   <<"BLOCKED", "READY">>, <<"RUNNING", "ZOMBIE">>, <<"NONE", "READY">>}
OneRunning == Cardinality({t \in TaskIds : tstate[t] = "RUNNING"}) <= 1
EdgesOf(tasks, edges) ==
  \A t \in tasks : tstate'[t] # tstate[t] => <<tstate[t], tstate'[t]>> \in edges
TaskStateMachine == []OneRunning /\ [][EdgesOf(TaskIds, TaskStateEdges)]_vars

\* The part that holds: every task but the idle task follows the edges, the
\* idle task follows them or goes from BLOCKED straight to RUNNING, and one
\* task at most is RUNNING.
TaskStateMachineButIdle ==
  /\ []OneRunning
  /\ [][EdgesOf(TaskIds \ {idle_task}, TaskStateEdges)]_vars
  /\ [][EdgesOf({idle_task}, TaskStateEdges \cup {<<"BLOCKED", "RUNNING">>})]_vars

\* task_exit of the last other task made the idle task RUNNING while it was
\* BLOCKED and nothing had unblocked it.
IdleRanWhileBlocked ==
  op.name = "task_exit" /\ tstate[idle_task] = "RUNNING" /\ idle_task \in awaiting

(***************************************************************************)
(* Processes that fork, wait and exit, where the CPU goes on executing the *)
(* kernel paths it is in and every process that runs in user mode exits    *)
(* sooner or later.  proc_schedule is entered from wait and exit only.     *)
(***************************************************************************)
NextLive ==
  \/ ProcStartFirst("none")
  \/ SysFork("none")
  \/ SysExecve(TRUE, "none")
  \/ \E pid \in WaitPidArgs, options \in {0, WNOHANG} : SysWait4(pid, options, TRUE)
  \/ EnterUser
  \/ WaitResume
  \/ \E code \in ExitCodes : ProcExit(code)
  \/ ProcExitClose
  \/ ProcExitWake
  \/ ProcExitSched

FairProc ==
  /\ Init
  /\ [][NextLive]_vars
  /\ WF_vars(EnterUser)
  /\ WF_vars(WaitResume)
  /\ WF_vars(\E code \in ExitCodes : ProcExit(code))
  /\ WF_vars(ProcExitClose)
  /\ WF_vars(ProcExitWake)
  /\ WF_vars(ProcExitSched)

\* The slot s is blocked in proc_wait or proc_waitpid, and its child with PID
\* c, which it waits for (by PID or as any child), has exited.
WaitsForExited(s, c) ==
  /\ proc_table[s].state = "BLOCKED"
  /\ proc_table[s].saved_rsp \in {"proc_wait", "waitpid_any", "waitpid_pid"}
  /\ proc_table[s].waiting_for_pid \in {0, c}
  /\ \E k \in Slots : /\ proc_table[k].pid = c
                      /\ proc_table[k].parent_pid = proc_table[s].pid
                      /\ proc_table[k].state = "ZOMBIE"

\* The slot s is back in user mode from that call: proc_waitpid returned the
\* PID of an exited child (c itself when it waited by PID), proc_wait the exit
\* code of c.
ResumedWith(s, c) ==
  /\ current_proc = s
  /\ kpc = "user"
  /\ cpu.rax = op.ret
  /\ \/ op.name = "wait4_resume" /\ op.ret \in Pids /\ (op.arg[1] # -1 => op.ret = c)
     \/ op.name = "proc_wait_resume" /\ op.arg[1] = c /\ op.ret \in ExitCodes

\* The step that resumes a waiter reaps a child of the waiter that was a
\* zombie: proc_waitpid returns its PID and stores its status word,
\* (exit_code & 0xFF) << 8; proc_wait returns its exit code.
ResumeReturnsChild ==
  kpc = "switched" /\ kpc' = "user" /\ op'.name \in {"wait4_resume", "proc_wait_resume"}
    => \E k \in Slots : /\ proc_table[k].state = "ZOMBIE"
                        /\ proc_table[k].parent_pid = proc_table[current_proc].pid
                        /\ proc_table'[k].state = "FREE"
                        /\ IF op'.name = "wait4_resume"
                             THEN /\ op'.ret = proc_table[k].pid
                                  /\ wstatus' = (proc_table[k].exit_code % 256) * 256
                             ELSE /\ op'.arg[1] = proc_table[k].pid
                                  /\ op'.ret = proc_table[k].exit_code

NextStale ==
  \/ NoHandle /\ Ext2Create(1)
  \/ \E f \in FileIds :
       /\ e2_files[f].inode.i_size = 0
       /\ Ext2Write(f, Blocks13, 1)
  \/ \E f \in FileIds : Ext2Close(f)
  \/ Ext2Mkdir(3)
  \/ CanRelease /\ Ext2Unlink(1)
  \/ CanRelease /\ Ext2UnlinkOpen(1)
  \/ CanRelease /\ Ext2Rmdir(3)
SpecStale == Init /\ [][NextStale]_vars

\* The inodes the directory tree reaches from the root, on the disk.
ValidBlock(b) == b >= first_data_block /\ b < blocks_count
ValidInode(i) == i >= 1 /\ i <= inodes_count
DirChildren(s, ino) ==
  LET inode == read_inode(s, ino)
      recs == dir_records(s, inode)
  IN  IF ModeType(inode.i_mode) # EXT2_S_IFDIR THEN {}
      ELSE { recs[k].es[i].inode :
               <<k, i>> \in { <<k, i>> \in (1..Len(recs)) \X (0..block_size) :
                                /\ i \in 1..Len(recs[k].es)
                                /\ recs[k].es[i].inode # 0
                                /\ ValidInode(recs[k].es[i].inode)
                                /\ recs[k].es[i].name # Dot
                                /\ recs[k].es[i].name # DotDot } }
RECURSIVE ReachFrom(_, _, _)
ReachFrom(s, seen, depth) ==
  LET more == seen \cup UNION { DirChildren(s, i) : i \in seen }
  IN  IF depth = 0 \/ more = seen THEN seen ELSE ReachFrom(s, more, depth - 1)
ReachableInodes(s) == ReachFrom(s, {EXT2_ROOT_INODE}, inodes_count)

\* The blocks an inode references, each as often as it is referenced: the
\* block of a slot and, below a pointer block, the blocks its entries name.
RECURSIVE TreeRefs(_, _, _)
TreeRefs(s, block, level) ==
  IF level = 0 \/ ~ValidBlock(block) THEN <<block>>
  ELSE LET buf == vol_read_block(s, block)
           F[i \in 0..ptrs_per_block] ==
             IF i = ptrs_per_block THEN <<>>
             ELSE (IF RdPtr(buf, i) # 0 THEN TreeRefs(s, RdPtr(buf, i), level - 1) ELSE <<>>)
                  \o F[i + 1]
       IN  <<block>> \o F[0]
InodeRefs(s, inode) ==
  LET F[i \in 0..EXT2_N_BLOCKS] ==
        IF i = EXT2_N_BLOCKS THEN <<>>
        ELSE (IF inode.i_block[i] # 0
                THEN TreeRefs(s, inode.i_block[i],
                              IF i < EXT2_NDIR_BLOCKS THEN 0 ELSE i - EXT2_NDIR_BLOCKS + 1)
                ELSE <<>>) \o F[i + 1]
  IN  F[0]
RECURSIVE AllRefs(_, _)
AllRefs(s, inos) ==
  IF inos = {} THEN <<>>
  ELSE LET i == CHOOSE x \in inos : TRUE
       IN  InodeRefs(s, read_inode(s, i)) \o AllRefs(s, inos \ {i})

BlockAllocated(disk, b) ==
  /\ ValidBlock(b)
  /\ ((b - first_data_block) % blocks_per_group)
       \in disk.bbm[(b - first_data_block) \div blocks_per_group]
ReferencedAllocated(refs) == \A k \in 1..Len(refs) : BlockAllocated(e2_disk, refs[k])
ReferencedOnce(refs) == \A j, k \in 1..Len(refs) : refs[j] = refs[k] => j = k
CountsMatchBits ==
  /\ FreeCount = FreeBits(e2_disk)
  /\ \A g \in Groups :
       e2_vol.groups[g].bg_free_blocks_count = blocks_per_group - Cardinality(e2_disk.bbm[g])

\* C35: after any sequence of ext2 calls, unlinking an open file and then
\* writing to or closing its handle included, every block a reachable inode
\* references is allocated in the block bitmap, no block is referenced twice,
\* and the free-block counts equal the number of clear bitmap bits.
BitmapConsistent ==
  /\ \E refs \in {AllRefs(Fs, ReachableInodes(Fs))} :
       ReferencedAllocated(refs) /\ ReferencedOnce(refs)
  /\ CountsMatchBits

\* A handle was closed after its file was unlinked, and a reachable inode
\* now references a block that is free in the bitmap.
StaleCloseLeftFreeBlock ==
  /\ op.name = "ext2_close"
  /\ ~ReferencedAllocated(AllRefs(Fs, ReachableInodes(Fs)))

(***************************************************************************)
(* ATA transfers with no scheduler context (ata.c, sched.c).               *)
(* sched_current() is NULL until sched_init has made the idle task, and    *)
(* stays NULL when its kzalloc fails.  ata_read and ata_write then take    *)
(* the PIO path, prepare_irq_wait records no waiter and wait_irq polls     *)
(* the alternate status with interrupts enabled.                           *)
(***************************************************************************)

\* sched_init when kzalloc returns NULL: the function returns before it
\* makes the idle task, so no task exists and nothing is current.
sched_init_failed ==
  /\ task_list = <<>>
  /\ tstate = [t \in TaskIds |-> "NONE"]
  /\ ticks_remaining = [t \in TaskIds |-> 0]
  /\ current_task = NULL
  /\ need_resched = FALSE
  /\ intr = FALSE
  /\ tpc = [t \in TaskIds |-> "none"]
  /\ awaiting = {}
  /\ slices = [t \in TaskIds |-> 0]

InitNoSched == InitProc /\ InitAta /\ sched_init_failed

\* ata_read / ata_write without a current task: never DMA.
AtaStartNoSched(write, count) ==
  /\ current_task = NULL
  /\ Executing
  /\ AtaStart(write, FALSE, count)

\* One pass of the retry loop of pio_read / pio_write without a current
\* task: prepare_irq_wait (interrupts off, PENDING, waiter = sched_current()),
\* the command, then the polling branch of wait_irq (interrupts on, poll).
\* When the device answers, its IRQ is taken as soon as interrupts are on and
\* ata_irq makes the channel IDLE; when it stays busy for POLL_ITERS reads,
\* wait_irq returns -ETIMEDOUT and nothing touches the channel state.  A
\* pio_write pass without DRQ ends before prepare_irq_wait.
PollPass(o) ==
  /\ current_task = NULL
  /\ Executing
  /\ xfer.path \in {"pio_read", "pio_write"}
  /\ o = "no_drq" => xfer.path = "pio_write"
  /\ xfer.retry < MAX_RETRIES /\ xfer.r # "OK"
  /\ xfer' = pio_pass(xfer, IF o = "no_drq" THEN "EIO" ELSE wait_irq_ret(o),
                      Append(xfer.hist, o))
  /\ IF o = "no_drq"
     THEN UNCHANGED <<ch_state, ch_waiter, intr, hw_busy, irq_line>>
     ELSE /\ ch_waiter' = prepare_irq_wait(current_task).waiter
          /\ intr' = TRUE
          /\ irq_line' = FALSE
          /\ IF o = "silent"
             THEN /\ ch_state' = prepare_irq_wait(current_task).state
                  /\ hw_busy' = TRUE
             ELSE /\ ch_state' = "IDLE"
                  /\ hw_busy' = FALSE
  /\ op' = [name |-> "poll_pass", ret |-> 0, arg |-> <<o>>]
  /\ UNCHANGED <<task_list, tstate, ticks_remaining, current_task, need_resched, tpc,
                 elapsed, awaiting, slices, procVars, fdVars, pipeVars, memVars, svcVars>>

\* The caller takes the result once a raised IRQ has been served.
AtaReturnNoSched == Executing /\ AtaReturn

NextPoll ==
  \/ \E write \in BOOLEAN, count \in 1..MaxSectors : AtaStartNoSched(write, count)
  \/ \E o \in PioWriteOutcomes : PollPass(o)
  \/ DeviceComplete
  \/ AtaIrq
  \/ AtaReturnNoSched

SpecPoll == InitNoSched /\ [][NextPoll]_vars

\* C36: whenever ata_read or ata_write returns, with success, a device
\* error or a timeout, by DMA, by IRQ-driven PIO or by polling without a
\* scheduler context, the channel is IDLE and has no waiter.
ChannelIdleAtReturn ==
  xfer.path = "ret" => ch_state = "IDLE" /\ ch_waiter = NULL

\* A polled transfer returned -ETIMEDOUT and its channel is still PENDING.
PolledTimeoutLeftPending ==
  /\ current_task = NULL
  /\ xfer.path = "ret" /\ xfer.ret = "ETIMEDOUT"
  /\ ch_state = "PENDING"

\* With a current task, every exit of wait_irq leaves the channel IDLE with
\* no waiter.
WaitIrqLeavesIdle ==
  op.name \in {"wait_irq_timeout", "wait_irq_done"} =>
    ch_state = "IDLE" /\ ch_waiter = NULL

(***************************************************************************)
(* The page allocator over every sequence of calls (pmm.c).                *)
(***************************************************************************)

\* Pages whose bit pmm_init left set: memory that is not usable, the bitmap
\* itself, and the padding bits past total_pages.
ReservedAtBoot == {p \in PageIds : InitPmm.bitmap[p]}

\* The pages a successful allocation returned.
Returned(o) ==
  IF o.ret = 0 THEN {}
  ELSE IF o.name = "pmm_alloc" THEN PagesOf(o.ret, 1)
  ELSE PagesOf(o.ret, o.arg[1])

\* An allocation returns only pages that nobody holds and that were not
\* reserved at boot.
AllocReturnsFreeFrames ==
  op'.name \in {"pmm_alloc", "pmm_alloc_pages"} =>
    Returned(op') \cap (pmm_handed \cup ReservedAtBoot) = {}

\* An allocation returns only pages that nobody holds.
AllocReturnsUnheldFrames ==
  op'.name \in {"pmm_alloc", "pmm_alloc_pages"} =>
    Returned(op') \cap pmm_handed = {}

\* free_pages is the number of clear bits of the bitmap.
ClearBits(bm) == Cardinality({p \in PageIds : ~bm[p]})
CounterMatchesBits == free_pages = ClearBits(bitmap)

\* C37: for every sequence of PMM calls, pmm_alloc and pmm_alloc_pages never
\* return a frame that is allocated or that was reserved at boot, and in
\* every state the free-page counter is the number of clear bitmap bits.
NoFrameHandedTwice == []CounterMatchesBits /\ [][AllocReturnsFreeFrames]_vars

\* The parts of it that hold: the counter, and no frame that a caller holds
\* is returned again.
NoHeldFrameHandedTwice == []CounterMatchesBits /\ [][AllocReturnsUnheldFrames]_vars

\* pmm_alloc returned a page that pmm_init had reserved.
ReservedFrameHandedOut ==
  /\ op.name = "pmm_alloc"
  /\ op.ret # 0
  /\ (op.ret \div PAGE_SIZE) \in ReservedAtBoot

(***************************************************************************)
(* The ring buffer of a pipe (syscalls.c).                                 *)
(***************************************************************************)

\* count, read_pos and write_pos of pipe data d describe a ring of
\* PIPE_BUF_SIZE bytes: the write position is count bytes ahead of the read
\* position, modulo the size.
RingShape(d) ==
  /\ d.count \in 0..PIPE_BUF_SIZE
  /\ d.read_pos \in 0..(PIPE_BUF_SIZE - 1)
  /\ d.write_pos \in 0..(PIPE_BUF_SIZE - 1)
  /\ (d.write_pos - d.read_pos) % PIPE_BUF_SIZE = d.count % PIPE_BUF_SIZE

\* What the reader of pipe i has received is a prefix of what was written, in
\* the order of writing and without repetition, and the bytes between the
\* two are the ones the buffer holds from read_pos on.
FifoOnce(i) ==
  /\ Len(pipe_out[i]) + pipe_buf[i].count = Len(pipe_in[i])
  /\ \A k \in 1..Len(pipe_out[i]) : pipe_out[i][k] = pipe_in[i][k]
  /\ \A j, k \in 1..Len(pipe_out[i]) : pipe_out[i][j] = pipe_out[i][k] => j = k
  /\ \A k \in 1..pipe_buf[i].count :
       pipe_buf[i].buffer[(pipe_buf[i].read_pos + k - 1) % PIPE_BUF_SIZE]
         = pipe_in[i][Len(pipe_out[i]) + k]

\* C38: in every state reached by pipe reads and writes of any sizes, each
\* pipe's byte count is within 0..PIPE_BUF_SIZE, its read and write
\* positions are inside the buffer with (write_pos - read_pos) mod
\* PIPE_BUF_SIZE = count mod PIPE_BUF_SIZE, and the reader receives the
\* written bytes in write order, each exactly once.
PipeRingConsistent ==
  \A i \in PipeIds : RingShape(pipe_buf[i]) /\ FifoOnce(i)

\* A write has filled a buffer whose positions had moved on: the buffer is
\* full with both positions inside it and bytes already read before them.
FullAfterWrap ==
  \E i \in PipeIds :
    /\ op.name = "write" /\ op.ret > 0
    /\ pipe_buf[i].count = PIPE_BUF_SIZE
    /\ pipe_buf[i].read_pos > 0
    /\ pipe_buf[i].write_pos = pipe_buf[i].read_pos
    /\ Len(pipe_out[i]) > 0

(***************************************************************************)
(* Zombies and their slots (proc.c).  A ZOMBIE slot becomes FREE only in   *)
(* proc_wait and proc_waitpid, called by the process whose PID is the      *)
(* zombie's parent_pid.                                                    *)
(***************************************************************************)

\* The running process is the first one, which has no parent.
ByFirst == current_proc # NULL /\ proc_table[current_proc].parent_pid = 0

\* exit() by a process other than the first.
ExitByChild(code) == ~ByFirst /\ ProcExit(code)

\* wait4(-1, options) by the first process.
ReapByFirst(options) == ByFirst /\ SysWait4(-1, options, TRUE)

\* The first process never exits and reaps for ever, as an init does: again
\* and again it calls wait4(-1) blocking and wait4(-1, WNOHANG).  Every other
\* process that can run exits sooner or later.
NextReaper ==
  \/ ProcStartFirst("none")
  \/ SysFork("none")
  \/ SysExecve(TRUE, "none")
  \/ \E pid \in WaitPidArgs, options \in {0, WNOHANG} : SysWait4(pid, options, TRUE)
  \/ EnterUser
  \/ WaitResume
  \/ \E code \in ExitCodes : ExitByChild(code)
  \/ ProcExitClose
  \/ ProcExitWake
  \/ ProcExitSched

FairReaper ==
  /\ Init
  /\ [][NextReaper]_vars
  /\ WF_vars(EnterUser)
  /\ WF_vars(WaitResume)
  /\ WF_vars(\E code \in ExitCodes : ExitByChild(code))
  /\ WF_vars(ProcExitClose)
  /\ WF_vars(ProcExitWake)
  /\ WF_vars(ProcExitSched)
  /\ SF_vars(ReapByFirst(0))
  /\ SF_vars(ReapByFirst(WNOHANG))

\* C40: every zombie is eventually reaped and its slot returned to FREE,
\* also when its parent exited before it or exits without waiting for it.
ZombiesReaped ==
  \A s \in Slots : (proc_table[s].state = "ZOMBIE") ~> (proc_table[s].state = "FREE")

\* The same for the zombies that have a parent PID, leaving the first
\* process out.
ChildZombiesReaped ==
  \A s \in Slots :
    (proc_table[s].state = "ZOMBIE" /\ proc_table[s].parent_pid # 0)
      ~> (proc_table[s].state = "FREE")

\* The process that could reap slot s: the one whose PID is s's parent_pid,
\* if it has not exited.
Reaper(s) ==
  {k \in Slots : /\ proc_table[k].pid = proc_table[s].parent_pid
                 /\ proc_table[k].state \notin {"FREE", "ZOMBIE"}}

\* A zombie whose parent is gone, while another process goes on running: no
\* call that process can make frees the zombie's slot.
OrphanZombie ==
  \E s \in Slots :
    /\ proc_table[s].state = "ZOMBIE"
    /\ proc_table[s].parent_pid # 0
    /\ Reaper(s) = {}
    /\ proc_get(proc_table, proc_table[s].parent_pid) = NULL
    /\ kpc = "user"
    /\ current_proc # NULL /\ proc_table[current_proc].state = "RUNNING"

\* Once its parent is gone, a zombie's slot stays as it is.
OrphanStays ==
  \A s \in Slots :
    (proc_table[s].state = "ZOMBIE" /\ proc_table[s].parent_pid # 0 /\ Reaper(s) = {})
      => proc_table'[s] = proc_table[s]
OrphanNeverReaped == [][OrphanStays]_vars

====
